---- MODULE Spec2Model ----
(***************************************************************************)
(* Model of src/file_cleanup.py: the retention predicate should_keep_file, *)
(* the two-pass destructive walk delete_files_except and the confirmation  *)
(* gate of main, run against a small POSIX file system with regular files, *)
(* directories and symbolic links.                                         *)
(*                                                                         *)
(* A path is the sequence of its components from the root: <<"t","a">> is  *)
(* /t/a.  The target directory is /t; /o is a directory outside the target *)
(* holding the one regular file /o/f.                                      *)
(*                                                                         *)
(* Two classes of src/python_learn/pytest/examples/advanced_integration.py *)
(* follow, each with a specification of its own: ThreadSafeCounter under   *)
(* worker threads (CounterSpec) and UserService.get_user between its cache *)
(* and its repository (ServiceSpec).  MainSpec is the clean-up script from *)
(* the first line of main, configuration file included; Spec is the same   *)
(* script once the arguments are merged, without --config.                 *)
(*                                                                         *)
(* Three more programs close the module, each with its variables and its   *)
(* specification: GitAutoPush of src/git_auto_push.py (PushSpec),          *)
(* OrderService.create_order of the mypy example (OrderSpec) and           *)
(* RetryableConnection.connect_with_retry of the aiohappyeyeballs example  *)
(* (RetrySpec, and FairRetrySpec for its termination).                     *)
(***************************************************************************)
EXTENDS Naturals, Sequences, FiniteSets

VARIABLES
    fs,             \* the file system below and including the target: path -> node
    fs0,            \* the file system when the current delete_files_except call began
    pc,             \* position of the program
    keep_files,     \* list of base names to keep                (argument)
    keep_dirs,      \* list of keep directory entries            (argument)
    dry_run,        \* --dry-run                                 (argument)
    confirm,        \* what input() returned, "-" while it has not been called
    prompts,        \* number of input() calls made
    calls,          \* number of delete_files_except calls started
    stack,          \* os.walk's pending frames, innermost last
    pending,        \* entries of the yielded tuple the loop body has not reached yet
    deleted_files,  \* list of the paths unlinked
    deleted_dirs,   \* list of the paths rmdir'ed
    out,            \* the lines printed, as a set of <<tag, path>>
    evaluated,      \* <<pass, path>> for every should_keep_file call made in this call
    failures        \* number of unlink/rmdir calls the operating system refused

vars == <<fs, fs0, pc, keep_files, keep_dirs, dry_run, confirm, prompts, calls,
          stack, pending, deleted_files, deleted_dirs, out, evaluated, failures>>

\* main's argument handling (src/file_cleanup.py lines 193-202).
VARIABLES
    cli_files,      \* args.keep_files, the --keep-files values
    cli_dirs,       \* args.keep_dirs, the --keep-dirs values
    config          \* the file --config names, or that the option was not given

\* ThreadSafeCounter and its test
\* (src/python_learn/pytest/examples/advanced_integration.py lines 319-367).
VARIABLES
    value,          \* ThreadSafeCounter._value
    lock,           \* ThreadSafeCounter._lock: the set of its holders, 0 being the main thread
    num_threads,    \* how many worker threads the test starts
    iterations,     \* the iterations argument of worker_function
    thread_pc,      \* position of every worker thread
    loaded,         \* per thread, the _value read by `self._value += 1` before it is written back
    remaining,      \* per thread, the increment() calls it has still to make
    main_pc,        \* position of the test's main thread
    joined,         \* number of threads the main thread has joined
    increments,     \* number of increment() calls that have returned
    result          \* what get_value() returned to the main thread

counterVars == <<value, lock, num_threads, iterations, thread_pc, loaded, remaining,
                 main_pc, joined, increments, result>>

\* UserService.get_user with its repository and its cache
\* (src/python_learn/pytest/examples/advanced_integration.py lines 36-58).
VARIABLES
    repository,     \* what repository.get_by_id returns for every id
    cache,          \* what cache_service.get_user returns for every id
    service_pc,     \* position inside get_user
    user_id,        \* the argument of the current get_user call
    cached_user,    \* the local variable of line 51
    user,           \* the local variable of line 55
    returned,       \* the value the current call returned
    repo_calls,     \* repository.get_by_id calls made by the current get_user call
    set_calls,      \* cache_service.set_user calls made by the current get_user call
    requests        \* number of get_user calls started

serviceVars == <<repository, cache, service_pc, user_id, cached_user, user, returned,
                 repo_calls, set_calls, requests>>

\* GitAutoPush.auto_push_new_files and main (src/git_auto_push.py).
VARIABLES
    push_pc,            \* position inside main / auto_push_new_files
    include_modified,   \* --include-modified                        (argument)
    commands,           \* the git commands run so far with their results, in order
    committed,          \* what commit_changes returned: << >> while it has not
    untracked_files,    \* the local variable of line 213
    modified_files,     \* the local variable of line 219
    files_to_add,       \* the local variable of line 214
    added,              \* number of git add commands that succeeded in add_files
    success,            \* what auto_push_new_files returned: << >> while it has not
    exit_status         \* the exit status of main: << >> while it has not ended

pushVars == <<push_pc, include_modified, commands, committed, untracked_files,
              modified_files, files_to_add, added, success, exit_status>>

\* OrderService.create_order and its three repositories
\* (src/python_learn/mypy/examples/ecommerce_example.py).
VARIABLES
    customer_repo,      \* customer_repo._items: the set of its (key, item) pairs
    product_repo,       \* product_repo._items
    order_items,        \* order_repo._items
    next_id,            \* order_repo._next_id
    order_pc,           \* position inside create_order
    order_args,         \* the arguments of the current create_order call
    products,           \* the local list of line 243
    order,              \* what the current call returned or raised
    items_before,       \* order_repo._items when the current call began
                        \* (after a later Repository.delete: as that left it)
    orders              \* number of create_order calls started

orderVars == <<customer_repo, product_repo, order_items, next_id, order_pc,
               order_args, products, order, items_before, orders>>

\* RetryableConnection.connect_with_retry
\* (src/python_learn/aiohappyeyeballs/examples/practical_patterns.py).
VARIABLES
    retry_pc,           \* position inside connect_with_retry
    max_retries,        \* self.max_retries
    base_delay,         \* self.base_delay, in twentieths of a second
    hostname,           \* the argument
    attempt,            \* the loop variable of line 299
    attempts,           \* number of connection attempts begun
    sleeps,             \* the delays asyncio.sleep was awaited with, in order
    last_failed         \* the attempt that failed last: << >> while none has

retryVars == <<retry_pc, max_retries, base_delay, hostname, attempt, attempts,
               sleeps, last_failed>>

\* The programs modelled after UserService.
laterVars == <<pushVars, orderVars, retryVars>>

\* What no step of the clean-up run changes once main has merged its arguments.
beyondRun == <<cli_files, cli_dirs, config, counterVars, serviceVars, laterVars>>

\* What no step of the counter test changes.
beyondCounter == <<vars, cli_files, cli_dirs, config, serviceVars, laterVars>>

\* What no step of UserService changes.
beyondService == <<vars, cli_files, cli_dirs, config, counterVars, laterVars>>

\* What no step of GitAutoPush changes.
beyondPush == <<vars, cli_files, cli_dirs, config, counterVars, serviceVars,
                orderVars, retryVars>>

\* What no step of OrderService changes.
beyondOrder == <<vars, cli_files, cli_dirs, config, counterVars, serviceVars,
                 pushVars, retryVars>>

\* What no step of RetryableConnection changes.
beyondRetry == <<vars, cli_files, cli_dirs, config, counterVars, serviceVars,
                 pushVars, orderVars>>

allVars == <<vars, beyondRun>>

\* The counter test is not running.
CounterIdle ==
    /\ value = 0
    /\ lock = {}
    /\ num_threads = 0
    /\ iterations = 0
    /\ thread_pc = << >>
    /\ loaded = << >>
    /\ remaining = << >>
    /\ main_pc = "off"
    /\ joined = 0
    /\ increments = 0
    /\ result = 0

\* No UserService exists.
ServiceIdle ==
    /\ repository = << >>
    /\ cache = << >>
    /\ service_pc = "off"
    /\ user_id = 0
    /\ cached_user = << >>
    /\ user = << >>
    /\ returned = << >>
    /\ repo_calls = 0
    /\ set_calls = 0
    /\ requests = 0

\* GitAutoPush is not running.
PushIdle ==
    /\ push_pc = "off"
    /\ include_modified = FALSE
    /\ commands = << >>
    /\ committed = << >>
    /\ untracked_files = << >>
    /\ modified_files = << >>
    /\ files_to_add = << >>
    /\ added = 0
    /\ success = << >>
    /\ exit_status = << >>

\* No OrderService exists.
OrderIdle ==
    /\ customer_repo = {}
    /\ product_repo = {}
    /\ order_items = {}
    /\ next_id = 1
    /\ order_pc = "off"
    /\ order_args = << >>
    /\ products = << >>
    /\ order = << >>
    /\ items_before = {}
    /\ orders = 0

\* No RetryableConnection exists.
RetryIdle ==
    /\ retry_pc = "off"
    /\ max_retries = 0
    /\ base_delay = 0
    /\ hostname = ""
    /\ attempt = 0
    /\ attempts = 0
    /\ sleeps = << >>
    /\ last_failed = << >>

\* None of the programs modelled after UserService is running.
LaterIdle == PushIdle /\ OrderIdle /\ RetryIdle


---------------------------------------------------------------------------
(* Bounds of the model. *)

\* Largest number of entries (files, directories, links) below the target.
MaxEntries == 4

\* Largest number of unlink/rmdir calls that fail for an outside reason
\* (permission denied and the like) in one behaviour.
MaxFailures == 1

Names == {"a", "b"}

Root == << >>
Target == <<"t">>
Outside == <<"o">>
OutsideFile == <<"o", "f">>

\* The paths an entry can be created at: one or two levels below the target.
Sub == {<<"t", x>> : x \in Names} \cup {<<"t", "a", y>> : y \in Names} \cup {<<"t", "b", "a">>}

\* What a symbolic link may point to (always an absolute path).
LinkTargets == {OutsideFile, <<"t", "a", "b">>}

NoNode == [kind |-> "none", to |-> Root]
FileNode == [kind |-> "file", to |-> Root]
DirNode == [kind |-> "dir", to |-> Root]
LinkNode(t) == [kind |-> "link", to |-> t]
Nodes == {NoNode, FileNode, DirNode} \cup {LinkNode(t) : t \in LinkTargets}

\* A keep_dirs entry: absolute or relative, and its components.
KeepDirChoices ==
    { [abs |-> FALSE, parts |-> <<"a">>],          \* "a"
      [abs |-> FALSE, parts |-> <<"b", "..", "a", "b">>],  \* "b/../a/b"
      [abs |-> TRUE,  parts |-> <<"t", "b">>] }    \* "/t/b"

KeepDirLists == {<< >>} \cup {<<d>> : d \in KeepDirChoices}
    \cup {<<[abs |-> TRUE, parts |-> <<"t", "b">>], [abs |-> FALSE, parts |-> <<"a">>]>>}

KeepFileLists == {<< >>, <<"b">>, <<"a", "b">>}

\* What the operator may type at the prompt.
Answers == {"y", "Y", "n", "", "yes"}

---------------------------------------------------------------------------
(* The file system. *)

Parent(p) == IF p = Root THEN Root ELSE SubSeq(p, 1, Len(p) - 1)

Name(p) == IF p = Root THEN "" ELSE p[Len(p)]

IsPrefix(d, p) == Len(d) <= Len(p) /\ SubSeq(p, 1, Len(d)) = d

\* lstat: the kind of the entry at p itself, "none" when there is none.
Kind(f, p) ==
    IF p = Root \/ p = Outside THEN "dir"
    ELSE IF p = OutsideFile THEN "file"
    ELSE IF p \in DOMAIN f THEN f[p].kind
    ELSE "none"

LinkTo(f, p) == f[p].to

AllPaths == {Root, Outside, OutsideFile, Target} \cup Sub

\* The entries of directory d, as full paths.
Children(f, d) == {p \in AllPaths : p # Root /\ Parent(p) = d /\ Kind(f, p) # "none"}

\* Every entry but the volume root has a directory as its parent.
WellFormed(f) ==
    \A p \in DOMAIN f : Kind(f, p) # "none" => Kind(f, Parent(p)) = "dir"

Entries(f) == {p \in Sub : Kind(f, p) # "none"}

Trees ==
    {f \in [Sub \cup {Target} -> Nodes] :
        /\ f[Target].kind \in {"dir", "none"}
        /\ WellFormed(f)
        /\ Cardinality(Entries(f)) <= MaxEntries}

---------------------------------------------------------------------------
(* Path resolution: pathlib.Path.resolve() (non-strict) over posixpath.realpath. *)

\* posixpath._joinrealpath: resolve the components `rest` on top of the already
\* real `path`; `visiting` holds the links whose resolution is in progress.
\* ok = FALSE reports a symbolic link loop.
RECURSIVE JoinRealpath(_, _, _, _)
JoinRealpath(f, path, rest, visiting) ==
    IF rest = << >> THEN [ok |-> TRUE, path |-> path]
    ELSE LET name == Head(rest)
             tl == Tail(rest)
             newpath == Append(path, name)
         IN IF name = ".." THEN JoinRealpath(f, Parent(path), tl, visiting)
            ELSE IF Kind(f, newpath) # "link"
                 THEN JoinRealpath(f, newpath, tl, visiting)
            ELSE IF newpath \in visiting
                 THEN [ok |-> FALSE, path |-> newpath \o tl]
            ELSE LET r == JoinRealpath(f, Root, LinkTo(f, newpath),
                                       visiting \cup {newpath})
                 IN IF ~r.ok THEN [ok |-> FALSE, path |-> r.path \o tl]
                    ELSE JoinRealpath(f, r.path, tl, visiting)

\* Path.resolve(): the real path, or ok = FALSE where it raises: on a link
\* loop, RuntimeError("Symlink loop from ...") in the CPython the script was
\* run with (3.11).
Resolve(f, p) == JoinRealpath(f, Root, p, {})

\* stat-based tests follow links: DirEntry.is_dir(), Path.exists().
IsDir(f, p) == LET r == Resolve(f, p) IN r.ok /\ Kind(f, r.path) = "dir"

Exists(f, p) == LET r == Resolve(f, p) IN r.ok /\ Kind(f, r.path) # "none"

\* Path.parents: every proper ancestor.
Parents(p) == {SubSeq(p, 1, k) : k \in 0 .. (Len(p) - 1)}

InList(x, list) == \E i \in 1 .. Len(list) : list[i] = x

---------------------------------------------------------------------------
(* should_keep_file *)

\* Lines 59-63: Path(keep_dir), joined to target_dir when relative.
KeepDirPath(keep_dir, target_dir) ==
    IF ~keep_dir.abs THEN target_dir \o keep_dir.parts ELSE keep_dir.parts

\* KeepDirRound with the test for the keep directory itself (line 72) left out.
KeepDirRound_NoEquality(f, file_path, keep_dir, target_dir) ==
    LET keep_dir_path == Resolve(f, KeepDirPath(keep_dir, target_dir))
        file_path_resolved == Resolve(f, file_path)
    IN IF ~keep_dir_path.ok \/ ~file_path_resolved.ok THEN "next"
       ELSE IF keep_dir_path.path \in Parents(file_path_resolved.path) THEN "keep"
       ELSE "next"

\* KeepDirRound with the containment test of line 71 turned round.
KeepDirRound_Reversed(f, file_path, keep_dir, target_dir) ==
    LET keep_dir_path == Resolve(f, KeepDirPath(keep_dir, target_dir))
        file_path_resolved == Resolve(f, file_path)
    IN IF ~keep_dir_path.ok \/ ~file_path_resolved.ok THEN "next"
       ELSE IF \/ file_path_resolved.path \in Parents(keep_dir_path.path)
               \/ file_path_resolved.path = keep_dir_path.path
            THEN "keep"
       ELSE "next"

\* Lines 65-76: one round of the loop over keep_dirs. "keep" is the return True,
\* "next" is falling through to the next entry, by the failed test or by the
\* except clause.
KeepDirRound(f, file_path, keep_dir, target_dir) ==
    LET keep_dir_path == Resolve(f, KeepDirPath(keep_dir, target_dir))
        file_path_resolved == Resolve(f, file_path)
    IN IF ~keep_dir_path.ok \/ ~file_path_resolved.ok THEN "next"
       ELSE IF \/ keep_dir_path.path \in Parents(file_path_resolved.path)
               \/ file_path_resolved.path = keep_dir_path.path
            THEN "keep"
       ELSE "next"

\* KeepDirLoop with `return False` in place of the `continue` of line 76: the
\* first entry that fails to resolve ends the loop.
RECURSIVE KeepDirLoop_StopsAtFailure(_, _, _, _, _)
KeepDirLoop_StopsAtFailure(f, file_path, keep_dirs_, target_dir, i) ==
    IF i > Len(keep_dirs_) THEN FALSE
    ELSE IF ~Resolve(f, KeepDirPath(keep_dirs_[i], target_dir)).ok THEN FALSE
    ELSE IF KeepDirRound(f, file_path, keep_dirs_[i], target_dir) = "keep" THEN TRUE
    ELSE KeepDirLoop_StopsAtFailure(f, file_path, keep_dirs_, target_dir, i + 1)

\* Lines 58-78: the loop over keep_dirs from entry i on, and the return False
\* after it.
RECURSIVE KeepDirLoop(_, _, _, _, _)
KeepDirLoop(f, file_path, keep_dirs_, target_dir, i) ==
    IF i > Len(keep_dirs_) THEN FALSE
    ELSE IF KeepDirRound(f, file_path, keep_dirs_[i], target_dir) = "keep" THEN TRUE
    ELSE KeepDirLoop(f, file_path, keep_dirs_, target_dir, i + 1)

\* should_keep_file with the name rule applied to the target's own entries only.
should_keep_file_TopLevelNames(f, file_path, keep_files_, keep_dirs_, target_dir) ==
    IF Parent(file_path) = target_dir /\ InList(Name(file_path), keep_files_) THEN TRUE
    ELSE KeepDirLoop(f, file_path, keep_dirs_, target_dir, 1)

\* should_keep_file with file_path resolved at line 51, before the name rule
\* and outside the try: a path that does not resolve is kept by no rule.
should_keep_file_ResolveFirst(f, file_path, keep_files_, keep_dirs_, target_dir) ==
    IF ~Resolve(f, file_path).ok THEN FALSE
    ELSE IF InList(Name(file_path), keep_files_) THEN TRUE
    ELSE KeepDirLoop(f, file_path, keep_dirs_, target_dir, 1)

\* Lines 51-78.
should_keep_file(f, file_path, keep_files_, keep_dirs_, target_dir) ==
    IF InList(Name(file_path), keep_files_) THEN TRUE
    ELSE KeepDirLoop(f, file_path, keep_dirs_, target_dir, 1)

\* The resolve() calls the loop of lines 58-76 makes from entry i on: one for
\* the keep directory (line 67) and, when that one returned, one for the path
\* (line 68), in every round up to the one that returns True.
RECURSIVE ResolveCallsLoop(_, _, _, _, _)
ResolveCallsLoop(f, file_path, keep_dirs_, target_dir, i) ==
    IF i > Len(keep_dirs_) THEN 0
    ELSE LET n == IF Resolve(f, KeepDirPath(keep_dirs_[i], target_dir)).ok THEN 2 ELSE 1
         IN IF KeepDirRound(f, file_path, keep_dirs_[i], target_dir) = "keep" THEN n
            ELSE n + ResolveCallsLoop(f, file_path, keep_dirs_, target_dir, i + 1)

\* The resolve() calls one should_keep_file call makes (lines 54-76).
ResolveCalls(f, file_path, keep_files_, keep_dirs_, target_dir) ==
    IF InList(Name(file_path), keep_files_) THEN 0
    ELSE ResolveCallsLoop(f, file_path, keep_dirs_, target_dir, 1)

---------------------------------------------------------------------------
(* os.walk(target_dir, topdown=False) *)

\* One scandir of `top`: the frame os.walk keeps for it.  dirs and files are
\* told apart by is_dir(), which follows links; only directories that are not
\* links are walked into (followlinks=False).
Scan(f, top) ==
    LET entries == Children(f, top)
        dirs == {e \in entries : IsDir(f, e)}
    IN [root |-> top,
        dirs |-> dirs,
        files |-> entries \ dirs,
        todo |-> {e \in dirs : Kind(f, e) # "link"}]

\* The generator as created: scandir of an absent top raises inside os.walk,
\* which ignores it (onerror=None) and yields nothing.
WalkStart(f, top) == IF IsDir(f, top) THEN <<Scan(f, top)>> ELSE << >>

Top(s) == s[Len(s)]

Pop(s) == SubSeq(s, 1, Len(s) - 1)

---------------------------------------------------------------------------
(* The operating system's unlink and rmdir. *)

Remove(f, p) == [f EXCEPT ![p] = NoNode]

\* Path.unlink(): removes a file or a link; `ok` is FALSE when the system
\* refuses for an outside reason (permissions).
Unlink(f, p, ok) ==
    IF ok /\ Kind(f, p) \in {"file", "link"}
    THEN [ok |-> TRUE, fs |-> Remove(f, p)]
    ELSE [ok |-> FALSE, fs |-> f]

\* Path.rmdir(): removes an empty directory; refuses a link (ENOTDIR), a
\* directory with entries (ENOTEMPTY), or for an outside reason.
Rmdir(f, p, ok) ==
    IF ok /\ Kind(f, p) = "dir" /\ Children(f, p) = {}
    THEN [ok |-> TRUE, fs |-> Remove(f, p)]
    ELSE [ok |-> FALSE, fs |-> f]

\* `not any(dir_path.iterdir())`: "raise" when the listing fails (dir_path is
\* no directory any more, or a link that leads to none), else whether the
\* directory listed, links followed, has no entry.
IterdirEmpty(f, p) ==
    IF ~IsDir(f, p) THEN "raise"
    ELSE IF Children(f, Resolve(f, p).path) = {} THEN "empty"
    ELSE "nonempty"

\* str.lower() on what the operator typed.
Lower(s) == IF s = "Y" THEN "y" ELSE s

---------------------------------------------------------------------------
(* The configuration file and main's argument handling. *)

\* A file --config may name: its kind, and for a JSON mapping the keys it has
\* and their values.
ConfigFile(kind, keyset, files, dirs) ==
    [kind |-> kind, keys |-> keyset, keep_files |-> files, keep_dirs |-> dirs]

\* --config was not given (args.config is None).
NoConfig == ConfigFile("none", {}, << >>, << >>)

ConfigFiles ==
    { ConfigFile("missing", {}, << >>, << >>),      \* no such file
      ConfigFile("bad_json", {}, << >>, << >>),     \* not JSON
      ConfigFile("unreadable", {}, << >>, << >>),   \* a directory, bytes that are not UTF-8
      ConfigFile("list", {}, << >>, << >>),         \* JSON, but a list and not a mapping
      ConfigFile("mapping", {}, << >>, << >>),
      ConfigFile("mapping", {"keep_files"}, <<"b">>, << >>),
      ConfigFile("mapping", {"keep_dirs"}, << >>, <<[abs |-> FALSE, parts |-> <<"a">>]>>),
      ConfigFile("mapping", {"keep_files", "keep_dirs"}, <<"b">>,
                 <<[abs |-> FALSE, parts |-> <<"a">>]>>) }

CliFileLists == {<< >>, <<"a">>}

CliDirLists == {<< >>, <<[abs |-> TRUE, parts |-> <<"t", "b">>]>>}

\* dict.get(key, []) of lines 24-25.
ConfigGet(c, key, val) == IF key \in c.keys THEN val ELSE << >>

\* load_config_file with the handler of JSONDecodeError and the catch-all
\* handler taken out (lines 30-35): those exceptions leave the function.
load_config_file_OneHandler(c) ==
    IF c.kind = "missing"
    THEN [raised |-> FALSE, keep_files |-> << >>, keep_dirs |-> << >>,
          printed |-> "config_not_found"]
    ELSE IF c.kind # "mapping"
    THEN [raised |-> TRUE, keep_files |-> << >>, keep_dirs |-> << >>,
          printed |-> "traceback"]
    ELSE [raised |-> FALSE,
          keep_files |-> ConfigGet(c, "keep_files", c.keep_files),
          keep_dirs |-> ConfigGet(c, "keep_dirs", c.keep_dirs),
          printed |-> "config_loaded"]

\* load_config_file (lines 7-35): what it returns, what it prints, and whether
\* an exception leaves it.
load_config_file(c) ==
    IF c.kind = "missing"
    THEN [raised |-> FALSE, keep_files |-> << >>, keep_dirs |-> << >>,
          printed |-> "config_not_found"]
    ELSE IF c.kind = "bad_json"
    THEN [raised |-> FALSE, keep_files |-> << >>, keep_dirs |-> << >>,
          printed |-> "config_bad_json"]
    ELSE IF c.kind \in {"unreadable", "list"}
    THEN [raised |-> FALSE, keep_files |-> << >>, keep_dirs |-> << >>,
          printed |-> "config_load_failed"]
    ELSE [raised |-> FALSE,
          keep_files |-> ConfigGet(c, "keep_files", c.keep_files),
          keep_dirs |-> ConfigGet(c, "keep_dirs", c.keep_dirs),
          printed |-> "config_loaded"]

---------------------------------------------------------------------------
(* The program. *)

\* main has parsed its arguments, --config was not given: the keep lists are
\* the command line's (lines 195-196).
Init ==
    /\ fs \in Trees
    /\ fs0 = fs
    /\ pc = "main"
    /\ keep_files \in KeepFileLists
    /\ keep_dirs \in KeepDirLists
    /\ dry_run \in BOOLEAN
    /\ confirm = "-"
    /\ prompts = 0
    /\ calls = 0
    /\ stack = << >>
    /\ pending = {}
    /\ deleted_files = << >>
    /\ deleted_dirs = << >>
    /\ out = {}
    /\ evaluated = {}
    /\ failures = 0
    /\ cli_files = keep_files
    /\ cli_dirs = keep_dirs
    /\ config = NoConfig
    /\ CounterIdle
    /\ ServiceIdle
    /\ LaterIdle

\* main, lines 210 and 216-221 with --dry-run: no prompt, straight to the call.
MainDryRun ==
    /\ pc = "main"
    /\ dry_run
    /\ pc' = "call"
    /\ UNCHANGED <<fs, fs0, keep_files, keep_dirs, dry_run, confirm, prompts, calls,
                   stack, pending, deleted_files, deleted_dirs, out, evaluated,
                   failures>>
    /\ UNCHANGED beyondRun

\* MainConfirm without the return of line 214: the cancellation is printed and
\* the call is made all the same.
MainConfirm_NoReturn(answer) ==
    /\ pc = "main"
    /\ ~dry_run
    /\ confirm' = answer
    /\ prompts' = prompts + 1
    /\ pc' = "call"
    /\ out' = IF Lower(answer) # "y" THEN out \cup {<<"cancelled", Root>>} ELSE out
    /\ UNCHANGED <<fs, fs0, keep_files, keep_dirs, dry_run, calls, stack, pending,
                   deleted_files, deleted_dirs, evaluated, failures>>
    /\ UNCHANGED beyondRun

\* main, lines 210-221 without --dry-run: the prompt and the test of the answer.
MainConfirm(answer) ==
    /\ pc = "main"
    /\ ~dry_run
    /\ confirm' = answer
    /\ prompts' = prompts + 1
    /\ IF Lower(answer) # "y"
       THEN /\ pc' = "cancelled"
            /\ out' = out \cup {<<"cancelled", Root>>}
       ELSE /\ pc' = "call"
            /\ out' = out
    /\ UNCHANGED <<fs, fs0, keep_files, keep_dirs, dry_run, calls, stack, pending,
                   deleted_files, deleted_dirs, evaluated, failures>>
    /\ UNCHANGED beyondRun

\* CheckTarget without the return of line 99: the error is printed and the
\* walks are started all the same.
CheckTarget_NoReturn ==
    /\ pc = "call"
    /\ calls' = calls + 1
    /\ fs0' = fs
    /\ evaluated' = {}
    /\ deleted_files' = << >>
    /\ deleted_dirs' = << >>
    /\ pending' = {}
    /\ out' = IF ~Exists(fs, Target) THEN out \cup {<<"no_target", Target>>} ELSE out
    /\ stack' = WalkStart(fs, Target)
    /\ pc' = "walk1"
    /\ UNCHANGED <<fs, keep_files, keep_dirs, dry_run, confirm, prompts, failures>>
    /\ UNCHANGED beyondRun

\* delete_files_except, lines 91-104: the test of the target and the start of
\* the file pass.
CheckTarget ==
    /\ pc = "call"
    /\ calls' = calls + 1
    /\ fs0' = fs
    /\ evaluated' = {}
    /\ deleted_files' = << >>
    /\ deleted_dirs' = << >>
    /\ pending' = {}
    /\ IF ~Exists(fs, Target)
       THEN /\ out' = out \cup {<<"no_target", Target>>}
            /\ stack' = << >>
            /\ pc' = "done"
       ELSE /\ out' = out
            /\ stack' = WalkStart(fs, Target)
            /\ pc' = "walk1"
    /\ UNCHANGED <<fs, keep_files, keep_dirs, dry_run, confirm, prompts, failures>>
    /\ UNCHANGED beyondRun

\* os.walk between two yields: scandir of one sub-directory of the innermost
\* frame, in whatever order the directory listing gave them.
WalkDescend(c) ==
    /\ pc \in {"walk1", "walk2"}
    /\ pending = {}
    /\ stack # << >>
    /\ c \in Top(stack).todo
    /\ LET rest == [stack EXCEPT ![Len(stack)].todo = @ \ {c}]
       IN stack' = IF IsDir(fs, c) THEN Append(rest, Scan(fs, c)) ELSE rest
    /\ UNCHANGED <<fs, fs0, pc, keep_files, keep_dirs, dry_run, confirm, prompts,
                   calls, pending, deleted_files, deleted_dirs, out, evaluated,
                   failures>>
    /\ UNCHANGED beyondRun

\* The frames of the directories in `todo`, in some order.
RECURSIVE FramesOf(_, _)
FramesOf(f, todo) ==
    IF todo = {} THEN << >>
    ELSE LET c == CHOOSE c \in todo : TRUE
         IN <<Scan(f, c)>> \o FramesOf(f, todo \ {c})

\* WalkYield as os.walk(target_dir) without topdown=False would do it: a
\* directory is yielded before its sub-directories are walked.
WalkYield_TopDown ==
    /\ pc \in {"walk1", "walk2"}
    /\ pending = {}
    /\ stack # << >>
    /\ pending' = IF pc = "walk1" THEN Top(stack).files ELSE Top(stack).dirs
    /\ stack' = Pop(stack) \o FramesOf(fs, Top(stack).todo)
    /\ UNCHANGED <<fs, fs0, pc, keep_files, keep_dirs, dry_run, confirm, prompts,
                   calls, deleted_files, deleted_dirs, out, evaluated, failures>>
    /\ UNCHANGED beyondRun

\* WalkYield with the directory loop taking the yielded root itself, not the
\* names of its dirs list (line 122).
WalkYield_Root ==
    /\ pc \in {"walk1", "walk2"}
    /\ pending = {}
    /\ stack # << >>
    /\ Top(stack).todo = {}
    /\ pending' = IF pc = "walk1" THEN Top(stack).files ELSE {Top(stack).root}
    /\ stack' = Pop(stack)
    /\ UNCHANGED <<fs, fs0, pc, keep_files, keep_dirs, dry_run, confirm, prompts,
                   calls, deleted_files, deleted_dirs, out, evaluated, failures>>
    /\ UNCHANGED beyondRun

\* os.walk yields (root, dirs, files) of the innermost frame once all its
\* sub-directories have been yielded; the loop body takes files (line 105) in
\* the file pass and dirs (line 122) in the directory pass.
WalkYield ==
    /\ pc \in {"walk1", "walk2"}
    /\ pending = {}
    /\ stack # << >>
    /\ Top(stack).todo = {}
    /\ pending' = IF pc = "walk1" THEN Top(stack).files ELSE Top(stack).dirs
    /\ stack' = Pop(stack)
    /\ UNCHANGED <<fs, fs0, pc, keep_files, keep_dirs, dry_run, confirm, prompts,
                   calls, deleted_files, deleted_dirs, out, evaluated, failures>>
    /\ UNCHANGED beyondRun

\* FileStep without the dry_run test of line 109.
FileStep_IgnoreDryRun(file_path, ok) ==
    /\ pc = "walk1"
    /\ file_path \in pending
    /\ pending' = pending \ {file_path}
    /\ evaluated' = evaluated \cup {<<"file", file_path>>}
    /\ IF should_keep_file(fs, file_path, keep_files, keep_dirs, Target)
       THEN /\ ok
            /\ UNCHANGED <<fs, deleted_files, out, failures>>
       ELSE LET r == Unlink(fs, file_path, ok)
            IN IF r.ok
               THEN /\ fs' = r.fs
                    /\ deleted_files' = Append(deleted_files, file_path)
                    /\ out' = out \cup {<<"deleted_file", file_path>>}
                    /\ failures' = failures
               ELSE /\ failures < MaxFailures
                    /\ failures' = failures + 1
                    /\ out' = out \cup {<<"error", file_path>>}
                    /\ UNCHANGED <<fs, deleted_files>>
    /\ UNCHANGED <<fs0, pc, keep_files, keep_dirs, dry_run, confirm, prompts, calls,
                   stack, deleted_dirs>>
    /\ UNCHANGED beyondRun

\* FileStep without the try/except of lines 112-117: the exception of a
\* failing unlink leaves delete_files_except and main.
FileStep_NoExcept(file_path, ok) ==
    /\ pc = "walk1"
    /\ file_path \in pending
    /\ pending' = pending \ {file_path}
    /\ evaluated' = evaluated \cup {<<"file", file_path>>}
    /\ IF should_keep_file(fs, file_path, keep_files, keep_dirs, Target)
       THEN /\ ok
            /\ UNCHANGED <<fs, deleted_files, out, failures, pc>>
       ELSE IF dry_run
       THEN /\ ok
            /\ out' = out \cup {<<"dry_file", file_path>>}
            /\ UNCHANGED <<fs, deleted_files, failures, pc>>
       ELSE LET r == Unlink(fs, file_path, ok)
            IN IF r.ok
               THEN /\ fs' = r.fs
                    /\ deleted_files' = Append(deleted_files, file_path)
                    /\ out' = out \cup {<<"deleted_file", file_path>>}
                    /\ UNCHANGED <<failures, pc>>
               ELSE /\ failures < MaxFailures
                    /\ failures' = failures + 1
                    /\ pc' = "traceback"
                    /\ out' = out \cup {<<"traceback", file_path>>}
                    /\ UNCHANGED <<fs, deleted_files>>
    /\ UNCHANGED <<fs0, keep_files, keep_dirs, dry_run, confirm, prompts, calls,
                   stack, deleted_dirs>>
    /\ UNCHANGED beyondRun

\* Lines 106-117: the body of the file loop for one file; `ok` is whether the
\* system lets the unlink through.
FileStep(file_path, ok) ==
    /\ pc = "walk1"
    /\ file_path \in pending
    /\ pending' = pending \ {file_path}
    /\ evaluated' = evaluated \cup {<<"file", file_path>>}
    /\ IF should_keep_file(fs, file_path, keep_files, keep_dirs, Target)
       THEN /\ ok
            /\ UNCHANGED <<fs, deleted_files, out, failures>>
       ELSE IF dry_run
       THEN /\ ok
            /\ out' = out \cup {<<"dry_file", file_path>>}
            /\ UNCHANGED <<fs, deleted_files, failures>>
       ELSE LET r == Unlink(fs, file_path, ok)
            IN IF r.ok
               THEN /\ fs' = r.fs
                    /\ deleted_files' = Append(deleted_files, file_path)
                    /\ out' = out \cup {<<"deleted_file", file_path>>}
                    /\ failures' = failures
               ELSE /\ failures < MaxFailures
                    /\ failures' = failures + 1
                    /\ out' = out \cup {<<"error", file_path>>}
                    /\ UNCHANGED <<fs, deleted_files>>
    /\ UNCHANGED <<fs0, pc, keep_files, keep_dirs, dry_run, confirm, prompts, calls,
                   stack, deleted_dirs>>
    /\ UNCHANGED beyondRun

\* DirStep as it would be with shutil.rmtree(dir_path) in place of the
\* emptiness test and the rmdir.
DirStep_Rmtree(dir_path, ok) ==
    /\ pc = "walk2"
    /\ dir_path \in pending
    /\ ok
    /\ pending' = pending \ {dir_path}
    /\ evaluated' = evaluated \cup {<<"dir", dir_path>>}
    /\ IF \/ should_keep_file(fs, dir_path, << >>, keep_dirs, Target)
          \/ dry_run
          \/ Kind(fs, dir_path) # "dir"
       THEN UNCHANGED <<fs, deleted_dirs, out>>
       ELSE /\ fs' = [p \in DOMAIN fs |->
                        IF IsPrefix(dir_path, p) THEN NoNode ELSE fs[p]]
            /\ deleted_dirs' = Append(deleted_dirs, dir_path)
            /\ out' = out \cup {<<"deleted_dir", dir_path>>}
    /\ UNCHANGED <<fs0, pc, keep_files, keep_dirs, dry_run, confirm, prompts, calls,
                   stack, deleted_files, failures>>
    /\ UNCHANGED beyondRun

\* DirStep with keep_files handed to should_keep_file in place of the empty
\* list of line 126.
DirStep_KeepFiles(dir_path, ok) ==
    /\ pc = "walk2"
    /\ dir_path \in pending
    /\ pending' = pending \ {dir_path}
    /\ evaluated' = evaluated \cup {<<"dir", dir_path>>}
    /\ IF should_keep_file(fs, dir_path, keep_files, keep_dirs, Target)
       THEN /\ ok
            /\ UNCHANGED <<fs, deleted_dirs, out, failures>>
       ELSE LET e == IterdirEmpty(fs, dir_path)
            IN IF e = "raise"
               THEN /\ ok
                    /\ out' = out \cup {<<"error", dir_path>>}
                    /\ UNCHANGED <<fs, deleted_dirs, failures>>
               ELSE IF e = "nonempty"
               THEN /\ ok
                    /\ UNCHANGED <<fs, deleted_dirs, out, failures>>
               ELSE IF dry_run
               THEN /\ ok
                    /\ out' = out \cup {<<"dry_dir", dir_path>>}
                    /\ UNCHANGED <<fs, deleted_dirs, failures>>
               ELSE LET r == Rmdir(fs, dir_path, ok)
                    IN IF r.ok
                       THEN /\ fs' = r.fs
                            /\ deleted_dirs' = Append(deleted_dirs, dir_path)
                            /\ out' = out \cup {<<"deleted_dir", dir_path>>}
                            /\ failures' = failures
                       ELSE /\ ok \/ failures < MaxFailures
                            /\ failures' = IF ok THEN failures ELSE failures + 1
                            /\ out' = out \cup {<<"error", dir_path>>}
                            /\ UNCHANGED <<fs, deleted_dirs>>
    /\ UNCHANGED <<fs0, pc, keep_files, keep_dirs, dry_run, confirm, prompts, calls,
                   stack, deleted_files>>
    /\ UNCHANGED beyondRun

\* Lines 123-136: the body of the directory loop for one directory.
DirStep(dir_path, ok) ==
    /\ pc = "walk2"
    /\ dir_path \in pending
    /\ pending' = pending \ {dir_path}
    /\ evaluated' = evaluated \cup {<<"dir", dir_path>>}
    /\ IF should_keep_file(fs, dir_path, << >>, keep_dirs, Target)
       THEN /\ ok
            /\ UNCHANGED <<fs, deleted_dirs, out, failures>>
       ELSE LET e == IterdirEmpty(fs, dir_path)
            IN IF e = "raise"
               THEN /\ ok
                    /\ out' = out \cup {<<"error", dir_path>>}
                    /\ UNCHANGED <<fs, deleted_dirs, failures>>
               ELSE IF e = "nonempty"
               THEN /\ ok
                    /\ UNCHANGED <<fs, deleted_dirs, out, failures>>
               ELSE IF dry_run
               THEN /\ ok
                    /\ out' = out \cup {<<"dry_dir", dir_path>>}
                    /\ UNCHANGED <<fs, deleted_dirs, failures>>
               ELSE LET r == Rmdir(fs, dir_path, ok)
                    IN IF r.ok
                       THEN /\ fs' = r.fs
                            /\ deleted_dirs' = Append(deleted_dirs, dir_path)
                            /\ out' = out \cup {<<"deleted_dir", dir_path>>}
                            /\ failures' = failures
                       ELSE /\ ok \/ failures < MaxFailures
                            /\ failures' = IF ok THEN failures ELSE failures + 1
                            /\ out' = out \cup {<<"error", dir_path>>}
                            /\ UNCHANGED <<fs, deleted_dirs>>
    /\ UNCHANGED <<fs0, pc, keep_files, keep_dirs, dry_run, confirm, prompts, calls,
                   stack, deleted_files>>
    /\ UNCHANGED beyondRun

\* EndFilePass with the file loop left after the files of one directory, the
\* rest of the walk not consumed.
EndFilePass_Early ==
    /\ pc = "walk1"
    /\ pending = {}
    /\ pc' = "walk2"
    /\ deleted_dirs' = << >>
    /\ stack' = WalkStart(fs, Target)
    /\ UNCHANGED <<fs, fs0, keep_files, keep_dirs, dry_run, confirm, prompts, calls,
                   pending, deleted_files, out, evaluated, failures>>
    /\ UNCHANGED beyondRun

\* Lines 119-121: the file walk is exhausted; the directory walk starts.
EndFilePass ==
    /\ pc = "walk1"
    /\ pending = {}
    /\ stack = << >>
    /\ pc' = "walk2"
    /\ deleted_dirs' = << >>
    /\ stack' = WalkStart(fs, Target)
    /\ UNCHANGED <<fs, fs0, keep_files, keep_dirs, dry_run, confirm, prompts, calls,
                   pending, deleted_files, out, evaluated, failures>>
    /\ UNCHANGED beyondRun

\* Lines 138-140: the directory walk is exhausted; the summary.
Summary ==
    /\ pc = "walk2"
    /\ pending = {}
    /\ stack = << >>
    /\ pc' = "done"
    /\ out' = out \cup {<<"summary", Root>>}
    /\ UNCHANGED <<fs, fs0, keep_files, keep_dirs, dry_run, confirm, prompts, calls,
                   stack, pending, deleted_files, deleted_dirs, evaluated, failures>>
    /\ UNCHANGED beyondRun

\* delete_files_except called a second time with the same arguments, right
\* after a first call in which the system refused nothing returned.
RunAgain ==
    /\ pc = "done"
    /\ calls = 1
    /\ ~dry_run
    /\ failures = 0
    /\ pc' = "call"
    /\ UNCHANGED <<fs, fs0, keep_files, keep_dirs, dry_run, confirm, prompts, calls,
                   stack, pending, deleted_files, deleted_dirs, out, evaluated,
                   failures>>
    /\ UNCHANGED beyondRun

Next ==
    \/ MainDryRun
    \/ \E answer \in Answers : MainConfirm(answer)
    \/ CheckTarget
    \/ \E c \in AllPaths : WalkDescend(c)
    \/ WalkYield
    \/ \E p \in AllPaths, ok \in BOOLEAN : FileStep(p, ok)
    \/ \E p \in AllPaths, ok \in BOOLEAN : DirStep(p, ok)
    \/ EndFilePass
    \/ Summary
    \/ RunAgain

Spec == Init /\ [][Next]_allVars

---------------------------------------------------------------------------
(* main from its first line: the arguments, the configuration file, then *)
(* the run above.                                                         *)

\* The paths entries are created at when the arguments are under study.
ArgsPaths == {<<"t", "a">>, <<"t", "b">>, <<"t", "a", "a">>}

ArgsTrees == {f \in Trees : Entries(f) \subseteq ArgsPaths}

\* The values of --keep-files, --keep-dirs, --config and --dry-run.
MainInit ==
    /\ fs \in ArgsTrees
    /\ fs0 = fs
    /\ pc = "args"
    /\ cli_files \in CliFileLists
    /\ cli_dirs \in CliDirLists
    /\ config \in ConfigFiles \cup {NoConfig}
    /\ keep_files = << >>
    /\ keep_dirs = << >>
    /\ dry_run \in BOOLEAN
    /\ confirm = "-"
    /\ prompts = 0
    /\ calls = 0
    /\ stack = << >>
    /\ pending = {}
    /\ deleted_files = << >>
    /\ deleted_dirs = << >>
    /\ out = {}
    /\ evaluated = {}
    /\ failures = 0
    /\ CounterIdle
    /\ ServiceIdle
    /\ LaterIdle

\* MainArgs with lines 201-202 assigning the configuration file's lists in
\* place of extending the command line's.
MainArgs_ConfigReplaces ==
    /\ pc = "args"
    /\ IF config = NoConfig
       THEN /\ keep_files' = cli_files
            /\ keep_dirs' = cli_dirs
            /\ pc' = "main"
            /\ out' = out
       ELSE LET r == load_config_file(config)
            IN IF r.raised
               THEN /\ pc' = "traceback"
                    /\ out' = out \cup {<<r.printed, Root>>}
                    /\ keep_files' = cli_files
                    /\ keep_dirs' = cli_dirs
               ELSE /\ keep_files' = r.keep_files
                    /\ keep_dirs' = r.keep_dirs
                    /\ pc' = "main"
                    /\ out' = out \cup {<<r.printed, Root>>}
    /\ UNCHANGED <<fs, fs0, dry_run, confirm, prompts, calls, stack, pending,
                   deleted_files, deleted_dirs, evaluated, failures>>
    /\ UNCHANGED beyondRun

\* main, lines 193-208: the copies of the command line's lists, and the lists
\* of the configuration file appended to them when --config was given.  An
\* exception leaving load_config_file would leave main too.
MainArgs ==
    /\ pc = "args"
    /\ IF config = NoConfig
       THEN /\ keep_files' = cli_files
            /\ keep_dirs' = cli_dirs
            /\ pc' = "main"
            /\ out' = out
       ELSE LET r == load_config_file(config)
            IN IF r.raised
               THEN /\ pc' = "traceback"
                    /\ out' = out \cup {<<r.printed, Root>>}
                    /\ keep_files' = cli_files
                    /\ keep_dirs' = cli_dirs
               ELSE /\ keep_files' = cli_files \o r.keep_files
                    /\ keep_dirs' = cli_dirs \o r.keep_dirs
                    /\ pc' = "main"
                    /\ out' = out \cup {<<r.printed, Root>>}
    /\ UNCHANGED <<fs, fs0, dry_run, confirm, prompts, calls, stack, pending,
                   deleted_files, deleted_dirs, evaluated, failures>>
    /\ UNCHANGED beyondRun

MainNext ==
    \/ MainArgs
    \/ Next

MainSpec == MainInit /\ [][MainNext]_allVars

---------------------------------------------------------------------------
(* Properties. *)

\* The real directory a keep_dirs entry names, resolved in file system f.
KeepDirOf(f, keep_dir) == Resolve(f, KeepDirPath(keep_dir, Target))

\* Entry p lies in the subtree of a directory listed in keep_dirs, or is one.
Protected(f, p) ==
    \E i \in 1 .. Len(keep_dirs) :
        LET d == KeepDirOf(f, keep_dirs[i])
        IN d.ok /\ Kind(f, d.path) = "dir" /\ IsPrefix(d.path, p)

\* C1: no entry that is, or lies at any depth under, a directory listed in
\* keep_dirs is deleted by delete_files_except, in a dry run or not, whether
\* or not some deletion fails.
C1_KeepDirSubtreeSurvives ==
    \A p \in Sub :
        (calls > 0 /\ Kind(fs0, p) # "none" /\ Protected(fs0, p)) => fs[p] = fs0[p]

\* The paths the claims about should_keep_file are checked on: every path of
\* the model against every tree and keep list the program can start with, and,
\* while the walks run, the entries the loop body is about to classify.
PredicateInputs == IF pc = "main" THEN AllPaths ELSE pending

\* C2: a path whose base name is in keep_files is kept at any depth, whatever
\* keep_dirs contains.
C2_NameRule ==
    \A p \in PredicateInputs, kd \in KeepDirLists :
        InList(Name(p), keep_files) => should_keep_file(fs, p, keep_files, kd, Target)

\* A file two levels down, named in keep_files and under no keep directory,
\* went through the file pass of a run that deleted other files, and is there.
C2_Witness ==
    /\ pc = "done"
    /\ ~dry_run
    /\ keep_dirs = << >>
    /\ InList("b", keep_files)
    /\ <<"file", <<"t", "a", "b">>>> \in evaluated
    /\ Kind(fs, <<"t", "a", "b">>) = "file"
    /\ deleted_files # << >>

\* Keep entry i covers path p: both resolve, and the resolved entry is the
\* resolved p or an ancestor of it.
Covers(f, keep_dir, p) ==
    LET d == KeepDirOf(f, keep_dir)
        r == Resolve(f, p)
    IN d.ok /\ r.ok /\ IsPrefix(d.path, r.path)

C4_NonMatchDeleteEligible ==
    \A p \in PredicateInputs :
        should_keep_file(fs, p, keep_files, keep_dirs, Target)
            => \/ InList(Name(p), keep_files)
               \/ \E i \in 1 .. Len(keep_dirs) : Covers(fs, keep_dirs[i], p)

\* With both keep lists in use, a file matched by neither was deleted.
C4_Witness ==
    /\ pc = "done"
    /\ keep_files # << >>
    /\ keep_dirs # << >>
    /\ \E i \in 1 .. Len(deleted_files) :
           /\ ~InList(Name(deleted_files[i]), keep_files)
           /\ ~Protected(fs0, deleted_files[i])

\* C5: a directory is removed only at a moment when it holds no entry.
C5_OnlyEmptyDirsRemoved ==
    [][\A d \in Sub :
          (Kind(fs, d) = "dir" /\ Kind(fs', d) = "none") => Children(fs, d) = {}]_vars

\* The directory pass reached a directory outside every keep directory that
\* still held an entry, left it alone, and removed another one.
C5_Witness ==
    /\ pc = "done"
    /\ deleted_dirs # << >>
    /\ \E d \in Sub :
           /\ <<"dir", d>> \in evaluated
           /\ Kind(fs, d) = "dir"
           /\ Children(fs, d) # {}
           /\ ~should_keep_file(fs, d, << >>, keep_dirs, Target)

Printed(tag) == {e[2] : e \in {x \in out : x[1] = tag}}

\* C6: a second call with the same arguments, after a first call in which
\* nothing failed, deletes nothing.
C6_SecondRunDeletesNothing ==
    (pc = "done" /\ calls = 2 /\ ~dry_run /\ failures = 0 /\ Printed("error") = {})
        => (deleted_files = << >> /\ deleted_dirs = << >>)

\* C7: a dry run changes nothing below the target and records no deletion.
C7_DryRunNoOp ==
    dry_run => /\ fs = fs0
               /\ deleted_files = << >>
               /\ deleted_dirs = << >>
               /\ Printed("deleted_file") = {}
               /\ Printed("deleted_dir") = {}

\* A finished dry run that named a file and a directory as candidates.
C7_Witness ==
    /\ pc = "done"
    /\ dry_run
    /\ Printed("dry_file") # {}
    /\ Printed("dry_dir") # {}

\* What a run without --dry-run leaves of directory d: nothing, when d is
\* under no keep directory and holds only regular files that are not kept and
\* sub-directories of which the same is true.
RECURSIVE WouldBeRemoved(_, _)
WouldBeRemoved(f, d) ==
    /\ Kind(f, d) = "dir"
    /\ ~should_keep_file(f, d, << >>, keep_dirs, Target)
    /\ \A c \in Children(f, d) :
           IF Kind(f, c) = "dir" THEN WouldBeRemoved(f, c)
           ELSE /\ Kind(f, c) = "file"
                /\ ~should_keep_file(f, c, keep_files, keep_dirs, Target)

\* C8: a dry run names as deletion candidates the non-kept files and every
\* directory below the target that a run would remove, such as one holding
\* only candidate files.
C8_DryRunNamesEveryDeletion ==
    (pc = "done" /\ dry_run)
        => \A p \in Sub :
               /\ (Kind(fs, p) = "file"
                      /\ ~should_keep_file(fs, p, keep_files, keep_dirs, Target))
                    => p \in Printed("dry_file")
               /\ WouldBeRemoved(fs, p) => p \in Printed("dry_dir")

\* C9: without --dry-run main prompts exactly once, before the call; only "y"
\* or "Y" lets the call happen, any other answer ends the run with nothing
\* deleted; with --dry-run there is no prompt.
C9_ConfirmationGate ==
    /\ dry_run => (prompts = 0 /\ confirm = "-")
    /\ (~dry_run /\ pc # "main") => prompts = 1
    /\ (~dry_run /\ calls > 0) => confirm \in {"y", "Y"}
    /\ (~dry_run /\ pc # "main" /\ confirm \notin {"y", "Y"})
          => /\ pc = "cancelled"
             /\ calls = 0
             /\ fs = fs0
             /\ evaluated = {}
             /\ deleted_files = << >>
             /\ deleted_dirs = << >>

\* The operator typed "yes" over a tree a run would have emptied: cancelled.
C9_Witness ==
    /\ pc = "cancelled"
    /\ confirm = "yes"
    /\ keep_files = << >>
    /\ keep_dirs = << >>
    /\ Cardinality(Entries(fs)) >= 2

\* C10: when the target does not exist, the call prints the error and returns
\* at once: no walk, no classification, no deletion, no summary.
C10_MissingTarget ==
    (calls > 0 /\ ~Exists(fs0, Target))
        => /\ pc \in {"done", "call"}
           /\ stack = << >>
           /\ pending = {}
           /\ evaluated = {}
           /\ fs = fs0
           /\ deleted_files = << >>
           /\ deleted_dirs = << >>
           /\ Target \in Printed("no_target")
           /\ Printed("summary") = {}

\* A call on a missing target has returned.
C10_Witness ==
    /\ pc = "done"
    /\ calls = 1
    /\ ~Exists(fs, Target)
    /\ keep_dirs # << >>

---------------------------------------------------------------------------
(* The configuration file (checked under MainSpec). *)

\* The configuration file could not be loaded.
ConfigFailed == config.kind \in {"missing", "bad_json", "unreadable", "list"}

\* C11: when the --config path does not exist, is not valid JSON, or cannot be
\* read or decoded for another reason, load_config_file returns two empty
\* lists without raising, the failure is printed, and main goes on with
\* exactly the keep_files and keep_dirs of the command line.
C11_ConfigFailureDegrades ==
    ConfigFailed =>
        /\ ~load_config_file(config).raised
        /\ load_config_file(config).keep_files = << >>
        /\ load_config_file(config).keep_dirs = << >>
        /\ pc # "traceback"
        /\ pc # "args" =>
              /\ keep_files = cli_files
              /\ keep_dirs = cli_dirs
              /\ \E tag \in {"config_not_found", "config_bad_json", "config_load_failed"} :
                    Printed(tag) # {}

\* A configuration file that is not JSON, "a" kept on the command line: the
\* run reached its summary, /t/a is still there and /t/b was deleted.
C11_Witness ==
    /\ config.kind = "bad_json"
    /\ cli_files = <<"a">>
    /\ pc = "done"
    /\ ~dry_run
    /\ Printed("summary") # {}
    /\ Kind(fs0, <<"t", "a">>) = "file"
    /\ Kind(fs, <<"t", "a">>) = "file"
    /\ InList(<<"t", "b">>, deleted_files)

\* What the configuration file contributes to each list.
ConfigKeepFiles ==
    IF config.kind = "mapping" THEN ConfigGet(config, "keep_files", config.keep_files)
    ELSE << >>

ConfigKeepDirs ==
    IF config.kind = "mapping" THEN ConfigGet(config, "keep_dirs", config.keep_dirs)
    ELSE << >>

\* C12: the keep lists delete_files_except works with are the command line's
\* values followed by the configuration file's, an absent key counting as an
\* empty list; a name or a directory given by either source makes the
\* predicate keep the matching paths, and a regular file whose name either
\* source gave is still there when the call has returned.
C12_MergedKeepLists ==
    pc \notin {"args", "traceback"} =>
        /\ keep_files = cli_files \o ConfigKeepFiles
        /\ keep_dirs = cli_dirs \o ConfigKeepDirs
        /\ \A p \in PredicateInputs :
              /\ InList(Name(p), cli_files) \/ InList(Name(p), ConfigKeepFiles)
                    => should_keep_file(fs, p, keep_files, keep_dirs, Target)
              /\ \A list \in {cli_dirs, ConfigKeepDirs} : \A i \in 1 .. Len(list) :
                    Covers(fs, list[i], p)
                        => should_keep_file(fs, p, keep_files, keep_dirs, Target)
        /\ pc = "done" =>
              \A p \in Sub :
                  /\ Kind(fs0, p) = "file"
                  /\ InList(Name(p), cli_files) \/ InList(Name(p), ConfigKeepFiles)
                  => Kind(fs, p) = "file"

\* "a" from the command line and "b" from the configuration file, which has
\* no keep_dirs key: both files were evaluated and both are still there.
C12_Witness ==
    /\ cli_files = <<"a">>
    /\ config.kind = "mapping"
    /\ config.keys = {"keep_files"}
    /\ keep_files = <<"a", "b">>
    /\ keep_dirs = cli_dirs
    /\ pc = "done"
    /\ ~dry_run
    /\ {<<"file", <<"t", "a">>>>, <<"file", <<"t", "b">>>>} \subseteq evaluated
    /\ Kind(fs, <<"t", "a">>) = "file"
    /\ Kind(fs, <<"t", "b">>) = "file"

---------------------------------------------------------------------------
(* Failures, completeness and order of the two passes (checked under Spec). *)

\* Entries os.walk lists under `files`: whatever is there and is not, links
\* followed, a directory.
FileClass(f, p) == Kind(f, p) # "none" /\ ~IsDir(f, p)

\* The elements of a list.
Elems(list) == {list[i] : i \in 1 .. Len(list)}

\* An unlink or an rmdir has failed.
Failed == failures > 0 \/ Printed("error") # {}

\* C13: a failing unlink or rmdir does not end the run.  After a failure the
\* program is still inside the passes or past them, never thrown out of
\* them; when the call has returned, every file of the tree and every
\* directory of the tree has been evaluated and the summary printed; the
\* failed path is still there and is in neither list, the two lists holding
\* exactly the paths that are gone.
C13_FailureDoesNotAbort ==
    /\ Elems(deleted_files) \cup Elems(deleted_dirs)
          = {p \in Sub : Kind(fs0, p) # "none" /\ Kind(fs, p) = "none"}
    /\ Failed =>
          /\ pc \in {"walk1", "walk2", "done", "call"}
          /\ calls = 1 =>
                \A p \in Printed("error") :
                    /\ Kind(fs, p) # "none"
                    /\ p \notin Elems(deleted_files) \cup Elems(deleted_dirs)
          /\ pc = "done" /\ IsDir(fs0, Target) =>
                /\ Printed("summary") # {}
                /\ \A p \in Sub :
                      /\ FileClass(fs0, p) => <<"file", p>> \in evaluated
                      /\ Kind(fs0, p) = "dir" => <<"dir", p>> \in evaluated

\* The unlink of /t/b/a failed in the first call: /t/a, evaluated after it,
\* was deleted, the directory pass evaluated /t/b, and the lists do not hold
\* /t/b/a.
C13_Witness ==
    /\ pc = "done"
    /\ calls = 1
    /\ failures = 1
    /\ Printed("error") = {<<"t", "b", "a">>}
    /\ Kind(fs, <<"t", "b", "a">>) = "file"
    /\ deleted_files = << <<"t", "a">> >>
    /\ deleted_dirs = << >>
    /\ <<"dir", <<"t", "b">>>> \in evaluated
    /\ Printed("summary") # {}

\* The clean-up call has returned from a run that deleted for real and in
\* which no unlink, rmdir or listing failed.
CleanRunDone ==
    /\ pc = "done"
    /\ calls = 1
    /\ ~dry_run
    /\ IsDir(fs0, Target)
    /\ ~Failed

\* C14: after a run that is no dry run and in which nothing failed, no entry
\* os.walk lists as a file and the predicate does not keep is left under the
\* target, and no empty directory that keep_dirs does not keep is left below
\* the target.
C14_NothingDeletableRemains ==
    CleanRunDone =>
        \A p \in Sub :
            /\ FileClass(fs, p) => should_keep_file(fs, p, keep_files, keep_dirs, Target)
            /\ Kind(fs, p) = "dir" /\ Children(fs, p) = {}
                  => should_keep_file(fs, p, << >>, keep_dirs, Target)

\* The same on trees that hold no symbolic link.
C14_WithoutLinks ==
    (\A p \in Sub : Kind(fs0, p) # "link") => C14_NothingDeletableRemains

\* The directory pass has begun: it is at work, or has evaluated or removed a
\* directory.
DirPassBegun ==
    \/ pc = "walk2"
    \/ deleted_dirs # << >>
    \/ \E d \in Sub : <<"dir", d>> \in evaluated

\* C17: the file pass is over for the whole tree before the directory pass
\* evaluates its first directory: once the directory pass has begun, every
\* file the tree held when the call started has been evaluated.
C17_FilePassBeforeDirPass ==
    DirPassBegun =>
        \A p \in Sub : <<"file", p>> \in evaluated \/ ~FileClass(fs0, p)

\* Files in two directories, /t/a/a and /t/b, were both evaluated before
\* /t/a was found empty and removed.
C17_Witness ==
    /\ pc = "walk2"
    /\ {<<"file", <<"t", "a", "a">>>>, <<"file", <<"t", "b">>>>} \subseteq evaluated
    /\ <<"dir", <<"t", "a">>>> \in evaluated
    /\ deleted_files = << <<"t", "a", "a">>, <<"t", "b">> >>
    /\ deleted_dirs = << <<"t", "a">> >>

\* c is an empty directory that keep_dirs does not keep.
RemovableDir(f, c) ==
    /\ Kind(f, c) = "dir"
    /\ Children(f, c) = {}
    /\ ~should_keep_file(f, c, << >>, keep_dirs, Target)

\* C18: in the directory pass a directory is evaluated only after every
\* directory below it has been evaluated; when the turn of a directory comes
\* in a run that deletes for real and in which nothing failed, no removable
\* sub-directory is left in it, and so a directory that is not kept and held
\* nothing but removable sub-directories is itself removed in the same run.
C18_DeepestFirst ==
    /\ \A d \in Sub : <<"dir", d>> \in evaluated =>
          \A c \in Sub :
              IsPrefix(d, c) /\ c # d /\ Kind(fs0, c) = "dir" => <<"dir", c>> \in evaluated
    /\ pc = "walk2" /\ calls = 1 /\ ~dry_run /\ ~Failed =>
          \A d \in pending : \A c \in Children(fs, d) : ~RemovableDir(fs, c)
    /\ CleanRunDone =>
          \A d \in Sub :
              /\ Kind(fs0, d) = "dir"
              /\ Children(fs0, d) # {}
              /\ \A c \in Children(fs0, d) :
                    /\ RemovableDir(fs0, c)
                    /\ ~should_keep_file(fs, c, << >>, keep_dirs, Target)
              /\ ~should_keep_file(fs0, d, << >>, keep_dirs, Target)
              /\ ~should_keep_file(fs, d, << >>, keep_dirs, Target)
              => Kind(fs, d) = "none"

\* /t/a held the two empty directories /t/a/a and /t/a/b and nothing else;
\* both were removed before /t/a, which was removed too.
C18_Witness ==
    /\ CleanRunDone
    /\ Children(fs0, <<"t", "a">>) = {<<"t", "a", "a">>, <<"t", "a", "b">>}
    /\ \A c \in Children(fs0, <<"t", "a">>) : RemovableDir(fs0, c)
    /\ Len(deleted_dirs) = Cardinality({<<"t", "a">>, <<"t", "a", "a">>, <<"t", "a", "b">>})
    /\ deleted_dirs[Len(deleted_dirs)] = <<"t", "a">>
    /\ Elems(deleted_dirs) = {<<"t", "a">>, <<"t", "a", "a">>, <<"t", "a", "b">>}

\* C19: the directory pass classifies by keep_dirs alone: an empty directory
\* whose name is in keep_files, and that no keep_dirs entry covers, is removed
\* by a run that deletes for real and in which nothing failed.
C19_DirNameNotProtected ==
    CleanRunDone =>
        \A d \in Sub :
            /\ Kind(fs0, d) = "dir"
            /\ Children(fs0, d) = {}
            /\ InList(Name(d), keep_files)
            /\ ~should_keep_file(fs0, d, << >>, keep_dirs, Target)
            /\ ~should_keep_file(fs, d, << >>, keep_dirs, Target)
            => Kind(fs, d) = "none" /\ InList(d, deleted_dirs)

\* keep_files holds "b" and keep_dirs is ["a"]: the empty directory /t/a/b,
\* named b, lies under the keep directory and stays; the empty directory
\* /t/b, named b too, was removed.
C19_Witness ==
    /\ CleanRunDone
    /\ InList("b", keep_files)
    /\ keep_dirs = <<[abs |-> FALSE, parts |-> <<"a">>]>>
    /\ Kind(fs0, <<"t", "b">>) = "dir"
    /\ Children(fs0, <<"t", "b">>) = {}
    /\ Kind(fs, <<"t", "b">>) = "none"
    /\ InList(<<"t", "b">>, deleted_dirs)
    /\ Kind(fs, <<"t", "a", "b">>) = "dir"

---------------------------------------------------------------------------
(* A keep_dirs entry that cannot be resolved (checked under Spec). *)

\* The entries of a keep_dirs list that resolve.
Resolvable(f, list) == SelectSeq(list, LAMBDA e : KeepDirOf(f, e).ok)

\* C20: a keep_dirs entry whose resolution fails is passed over and the
\* entries after it are still tried: a path under a later entry that resolves
\* is kept, and every path is classified as it would be were the failing
\* entries not in the list.
C20_UnresolvableEntrySkipped ==
    \A p \in PredicateInputs :
        /\ (\E i \in 1 .. Len(keep_dirs) :
               /\ Covers(fs, keep_dirs[i], p)
               /\ \E j \in 1 .. (i - 1) : ~KeepDirOf(fs, keep_dirs[j]).ok)
              => should_keep_file(fs, p, << >>, keep_dirs, Target)
        /\ should_keep_file(fs, p, keep_files, keep_dirs, Target)
              = should_keep_file(fs, p, keep_files, Resolvable(fs, keep_dirs), Target)

\* keep_dirs is ["/t/b", "a"], /t/b a link into the link loop /t/a/b: the
\* first entry does not resolve, and the file /t/a/a, under the second, has
\* been evaluated in the file pass and is still there.
C20_Witness ==
    /\ pc = "walk1"
    /\ ~dry_run
    /\ Len(keep_dirs) = Cardinality({"/t/b", "a"})
    /\ ~KeepDirOf(fs, keep_dirs[1]).ok
    /\ Covers(fs, keep_dirs[Len(keep_dirs)], <<"t", "a", "a">>)
    /\ keep_files = << >>
    /\ <<"file", <<"t", "a", "a">>>> \in evaluated
    /\ Kind(fs, <<"t", "a", "a">>) = "file"

---------------------------------------------------------------------------
(* ThreadSafeCounter under worker threads, as test_thread_safe_counter     *)
(* drives it: the main thread starts the workers, each worker calls        *)
(* increment() `iterations` times, the main thread joins them all and      *)
(* calls get_value().  `self._value += 1` is a read followed by a write.   *)

\* Largest number of worker threads.
MaxThreads == 2

\* Largest number of increment() calls of one worker.
MaxIterations == 2

\* The main thread, as a holder of the lock.
MainThread == 0

Workers == 1 .. num_threads

\* The clean-up script is not running.
RunIdle ==
    /\ fs = [p \in Sub \cup {Target} |-> NoNode]
    /\ fs0 = fs
    /\ pc = "off"
    /\ keep_files = << >>
    /\ keep_dirs = << >>
    /\ dry_run = FALSE
    /\ confirm = "-"
    /\ prompts = 0
    /\ calls = 0
    /\ stack = << >>
    /\ pending = {}
    /\ deleted_files = << >>
    /\ deleted_dirs = << >>
    /\ out = {}
    /\ evaluated = {}
    /\ failures = 0
    /\ cli_files = << >>
    /\ cli_dirs = << >>
    /\ config = NoConfig

\* The test after `counter = ThreadSafeCounter()`, for some number of threads
\* and of iterations.
CounterInit ==
    /\ num_threads \in 1 .. MaxThreads
    /\ iterations \in 0 .. MaxIterations
    /\ value = 0
    /\ lock = {}
    /\ thread_pc = [t \in 1 .. num_threads |-> "unstarted"]
    /\ loaded = [t \in 1 .. num_threads |-> 0]
    /\ remaining = [t \in 1 .. num_threads |-> iterations]
    /\ main_pc = "start"
    /\ joined = 0
    /\ increments = 0
    /\ result = 0
    /\ RunIdle
    /\ ServiceIdle
    /\ LaterIdle

\* thread.start() for the next thread of the loop; after the last one the
\* main thread turns to the joins.
StartThread(t) ==
    /\ main_pc = "start"
    /\ t \in Workers
    /\ thread_pc[t] = "unstarted"
    /\ \A u \in Workers : u < t => thread_pc[u] # "unstarted"
    /\ thread_pc' = [thread_pc EXCEPT ![t] = "loop"]
    /\ main_pc' = IF t = num_threads THEN "join" ELSE "start"
    /\ UNCHANGED <<value, lock, num_threads, iterations, loaded, remaining, joined,
                   increments, result>>
    /\ UNCHANGED beyondCounter

\* worker_function: the head of `for _ in range(iterations)`.
WorkerLoop(t) ==
    /\ t \in Workers
    /\ thread_pc[t] = "loop"
    /\ thread_pc' = [thread_pc EXCEPT ![t] = IF remaining[t] = 0 THEN "finished" ELSE "acquire"]
    /\ UNCHANGED <<value, lock, num_threads, iterations, loaded, remaining, main_pc,
                   joined, increments, result>>
    /\ UNCHANGED beyondCounter

\* increment entered without `with self._lock`: the thread goes on whoever
\* holds the lock.
Acquire_NoLock(t) ==
    /\ t \in Workers
    /\ thread_pc[t] = "acquire"
    /\ lock' = lock \cup {t}
    /\ thread_pc' = [thread_pc EXCEPT ![t] = "load"]
    /\ UNCHANGED <<value, num_threads, iterations, loaded, remaining, main_pc, joined,
                   increments, result>>
    /\ UNCHANGED beyondCounter

\* increment: `with self._lock`, entered when no thread holds the lock.
Acquire(t) ==
    /\ t \in Workers
    /\ thread_pc[t] = "acquire"
    /\ lock = {}
    /\ lock' = {t}
    /\ thread_pc' = [thread_pc EXCEPT ![t] = "load"]
    /\ UNCHANGED <<value, num_threads, iterations, loaded, remaining, main_pc, joined,
                   increments, result>>
    /\ UNCHANGED beyondCounter

\* increment: the read of self._value in `self._value += 1`.
Load(t) ==
    /\ t \in Workers
    /\ thread_pc[t] = "load"
    /\ loaded' = [loaded EXCEPT ![t] = value]
    /\ thread_pc' = [thread_pc EXCEPT ![t] = "store"]
    /\ UNCHANGED <<value, lock, num_threads, iterations, remaining, main_pc, joined,
                   increments, result>>
    /\ UNCHANGED beyondCounter

\* increment: the write of self._value in `self._value += 1`.
Store(t) ==
    /\ t \in Workers
    /\ thread_pc[t] = "store"
    /\ value' = loaded[t] + 1
    /\ thread_pc' = [thread_pc EXCEPT ![t] = "release"]
    /\ UNCHANGED <<lock, num_threads, iterations, loaded, remaining, main_pc, joined,
                   increments, result>>
    /\ UNCHANGED beyondCounter

\* increment: the end of the with block; the call returns.
Release(t) ==
    /\ t \in Workers
    /\ thread_pc[t] = "release"
    /\ lock' = lock \ {t}
    /\ increments' = increments + 1
    /\ remaining' = [remaining EXCEPT ![t] = @ - 1]
    /\ thread_pc' = [thread_pc EXCEPT ![t] = "loop"]
    /\ UNCHANGED <<value, num_threads, iterations, loaded, main_pc, joined, result>>
    /\ UNCHANGED beyondCounter

\* thread.join() for the next thread of the list: returns once it has finished.
Join ==
    /\ main_pc = "join"
    /\ joined < num_threads
    /\ thread_pc[joined + 1] = "finished"
    /\ joined' = joined + 1
    /\ main_pc' = IF joined + 1 = num_threads THEN "get_value" ELSE "join"
    /\ UNCHANGED <<value, lock, num_threads, iterations, thread_pc, loaded, remaining,
                   increments, result>>
    /\ UNCHANGED beyondCounter

\* get_value: `with self._lock`.
GetValueAcquire ==
    /\ main_pc = "get_value"
    /\ lock = {}
    /\ lock' = {MainThread}
    /\ main_pc' = "return"
    /\ UNCHANGED <<value, num_threads, iterations, thread_pc, loaded, remaining, joined,
                   increments, result>>
    /\ UNCHANGED beyondCounter

\* get_value: `return self._value` and the end of the with block.
GetValueReturn ==
    /\ main_pc = "return"
    /\ result' = value
    /\ lock' = lock \ {MainThread}
    /\ main_pc' = "assert"
    /\ UNCHANGED <<value, num_threads, iterations, thread_pc, loaded, remaining, joined,
                   increments>>
    /\ UNCHANGED beyondCounter

CounterNext ==
    \/ \E t \in 1 .. MaxThreads : StartThread(t)
    \/ \E t \in 1 .. MaxThreads : WorkerLoop(t)
    \/ \E t \in 1 .. MaxThreads : Acquire(t)
    \/ \E t \in 1 .. MaxThreads : Load(t)
    \/ \E t \in 1 .. MaxThreads : Store(t)
    \/ \E t \in 1 .. MaxThreads : Release(t)
    \/ Join
    \/ GetValueAcquire
    \/ GetValueReturn

CounterSpec == CounterInit /\ [][CounterNext]_allVars

\* C15: whatever the number of threads, the number of iterations and the
\* interleaving, the value get_value() returns once every thread has been
\* joined is the number of increment() calls made: none is lost.  While no
\* thread is inside increment, the value is the number of calls returned.
C15_NoLostIncrement ==
    /\ lock = {} => value = increments
    /\ (\A t \in Workers : thread_pc[t] = "finished") =>
          value = num_threads * iterations
    /\ main_pc = "assert" =>
          /\ result = increments
          /\ result = num_threads * iterations

\* The most threads and the most iterations: every thread has been joined and
\* the main thread has read the product of the two.
C15_Witness ==
    /\ main_pc = "assert"
    /\ num_threads = MaxThreads
    /\ iterations = MaxIterations
    /\ result = MaxThreads * MaxIterations

---------------------------------------------------------------------------
(* UserService.get_user between a cache and a repository.  The two are     *)
(* injected: whatever they hold, get_by_id and get_user answer None or a   *)
(* User, and set_user stores the user under its id.                        *)

\* Largest number of get_user calls in one behaviour.
MaxRequests == 2

UserIds == {1, 2}

\* Python's None.
None == << >>

\* A User (lines 26-31), by the fields that tell the users of the model apart.
UserOf(i, n) == <<i, n>>

\* What the cache holds before the first call, and what the repository holds.
CachedUsers == {UserOf(i, "Cached User") : i \in UserIds}

StoredUsers == {UserOf(i, "Test User") : i \in UserIds}

\* bool(x) of `if cached_user:` and `if user:`: None is false, a User, whose
\* dataclass defines neither __bool__ nor __len__, is true.
Truthy(x) == x # None

\* UserService(repository, email_service, cache_service) has been built.
ServiceInit ==
    /\ repository \in [UserIds -> StoredUsers \cup {None}]
    /\ cache \in [UserIds -> CachedUsers \cup {None}]
    /\ service_pc = "idle"
    /\ user_id = 0
    /\ cached_user = None
    /\ user = None
    /\ returned = None
    /\ repo_calls = 0
    /\ set_calls = 0
    /\ requests = 0
    /\ RunIdle
    /\ CounterIdle
    /\ LaterIdle

\* A caller enters get_user(user_id).
CallGetUser(i) ==
    /\ service_pc = "idle"
    /\ requests < MaxRequests
    /\ requests' = requests + 1
    /\ user_id' = i
    /\ cached_user' = None
    /\ user' = None
    /\ returned' = None
    /\ repo_calls' = 0
    /\ set_calls' = 0
    /\ service_pc' = "cache_get"
    /\ UNCHANGED <<repository, cache>>
    /\ UNCHANGED beyondService

\* CacheGet without the early return of lines 52-53.
CacheGet_NoEarlyReturn ==
    /\ service_pc = "cache_get"
    /\ cached_user' = cache[user_id]
    /\ service_pc' = "repo_get"
    /\ UNCHANGED <<repository, cache, user_id, user, returned, repo_calls, set_calls,
                   requests>>
    /\ UNCHANGED beyondService

\* Lines 51-53: the cache lookup and the return of a hit.
CacheGet ==
    /\ service_pc = "cache_get"
    /\ cached_user' = cache[user_id]
    /\ IF Truthy(cache[user_id])
       THEN /\ returned' = cache[user_id]
            /\ service_pc' = "returned"
       ELSE /\ returned' = returned
            /\ service_pc' = "repo_get"
    /\ UNCHANGED <<repository, cache, user_id, user, repo_calls, set_calls, requests>>
    /\ UNCHANGED beyondService

\* Lines 55-56 and 58: the repository lookup, and the return of None when the
\* repository has no such user.
RepoGet ==
    /\ service_pc = "repo_get"
    /\ user' = repository[user_id]
    /\ repo_calls' = repo_calls + 1
    /\ IF Truthy(repository[user_id])
       THEN /\ service_pc' = "cache_set"
            /\ returned' = returned
       ELSE /\ service_pc' = "returned"
            /\ returned' = repository[user_id]
    /\ UNCHANGED <<repository, cache, user_id, cached_user, set_calls, requests>>
    /\ UNCHANGED beyondService

\* Lines 57-58: the user found is put in the cache and returned.
CacheSet ==
    /\ service_pc = "cache_set"
    /\ cache' = [cache EXCEPT ![user[1]] = user]
    /\ set_calls' = set_calls + 1
    /\ returned' = user
    /\ service_pc' = "returned"
    /\ UNCHANGED <<repository, user_id, cached_user, user, repo_calls, requests>>
    /\ UNCHANGED beyondService

\* The caller has its value; the service is ready for another call.
ReturnToCaller ==
    /\ service_pc = "returned"
    /\ service_pc' = "idle"
    /\ UNCHANGED <<repository, cache, user_id, cached_user, user, returned, repo_calls,
                   set_calls, requests>>
    /\ UNCHANGED beyondService

ServiceNext ==
    \/ \E i \in UserIds : CallGetUser(i)
    \/ CacheGet
    \/ RepoGet
    \/ CacheSet
    \/ ReturnToCaller

ServiceSpec == ServiceInit /\ [][ServiceNext]_allVars

\* C16: get_user asks the repository exactly when the cache lookup misses.
\* On a hit it returns what the cache gave and has called neither get_by_id
\* nor set_user; on a miss it has called get_by_id once, has called set_user
\* once when the repository gave a user and not at all when it gave None, and
\* returns what the repository gave.
C16_RepositoryOnlyOnMiss ==
    /\ repo_calls <= 1 /\ set_calls <= repo_calls
    /\ service_pc = "returned" =>
          IF cached_user # None
          THEN /\ cached_user = cache[user_id]
               /\ returned = cached_user
               /\ repo_calls = 0
               /\ set_calls = 0
          ELSE /\ repo_calls = 1
               /\ user = repository[user_id]
               /\ returned = user
               /\ set_calls = (IF user # None THEN 1 ELSE 0)
               /\ user # None => cache[user[1]] = user

\* The second call is a hit on the user the first call, a miss, fetched from
\* the repository and stored: nothing but the repository holds a "Test User".
C16_Witness ==
    /\ requests = MaxRequests
    /\ service_pc = "returned"
    /\ cached_user \in StoredUsers
    /\ returned = cached_user
    /\ repo_calls = 0
    /\ set_calls = 0

---------------------------------------------------------------------------
(* The order of the two rules, and the target itself (checked under Spec). *)

\* C21: the name rule comes before the loop over keep_dirs: a path whose base
\* name is in keep_files is kept without a single resolve() call, and so it
\* is kept too when the path itself or every keep_dirs entry does not
\* resolve.
C21_NameRuleFirst ==
    \A p \in PredicateInputs :
        InList(Name(p), keep_files) =>
            /\ should_keep_file(fs, p, keep_files, keep_dirs, Target)
            /\ ResolveCalls(fs, p, keep_files, keep_dirs, Target) = 0

\* /t/a/b is a link to itself and is named in keep_files; the one keep_dirs
\* entry runs through it and does not resolve either.  The file pass has
\* evaluated the link and it is still there.
C21_Witness ==
    /\ pc \in {"walk1", "walk2", "done"}
    /\ calls = 1
    /\ ~dry_run
    /\ InList("b", keep_files)
    /\ keep_dirs # << >>
    /\ \A i \in 1 .. Len(keep_dirs) : ~KeepDirOf(fs, keep_dirs[i]).ok
    /\ ~Resolve(fs, <<"t", "a", "b">>).ok
    /\ <<"file", <<"t", "a", "b">>>> \in evaluated
    /\ Kind(fs, <<"t", "a", "b">>) = "link"

\* C28: the target directory itself is never removed and is never a
\* candidate: the loops take entries strictly below the target only, and the
\* target's own node is what it was, also when the target has become empty
\* and no keep_dirs entry covers it.
C28_TargetNeverRemoved ==
    /\ fs[Target] = fs0[Target]
    /\ pending \subseteq Sub
    /\ \A e \in evaluated : e[2] \in Sub
    /\ Target \notin Elems(deleted_files) \cup Elems(deleted_dirs)

\* Everything below the target was deleted in a run in which nothing failed;
\* the target, empty and covered by no keep_dirs entry, is still a directory.
C28_Witness ==
    /\ CleanRunDone
    /\ Children(fs0, Target) # {}
    /\ Children(fs, Target) = {}
    /\ deleted_dirs # << >>
    /\ ~should_keep_file(fs, Target, << >>, keep_dirs, Target)
    /\ Kind(fs, Target) = "dir"

(***************************************************************************)
(* GitAutoPush (src/git_auto_push.py): auto_push_new_files from main, one  *)
(* step per git command it runs.  A text is the sequence of its lines and  *)
(* a line the sequence of its characters, so that what the methods cut out *)
(* of the output of git status --porcelain is computed as they compute it. *)
(* How a git command ends is the environment's choice.                     *)
(***************************************************************************)

\* Number of files git status reports on.
MaxFiles == 2

FileNameList == <<"f", "g", "h">>

FileNames == {FileNameList[i] : i \in 1..MaxFiles}

\* The two status letters of a porcelain line: untracked, modified in the work
\* tree, added to the index, deleted from the index.
StatusCodes == {<<"?", "?">>, <<" ", "M">>, <<"A", " ">>, <<"D", " ">>}

\* A file git status says nothing about.
Unchanged == << >>

\* What git status --porcelain can find: a status for every file.
WorkTrees == [FileNames -> StatusCodes \cup {Unchanged}]

RECURSIVE PorcelainFrom(_, _)
PorcelainFrom(tree, i) ==
    IF i > MaxFiles THEN << >>
    ELSE LET n == FileNameList[i]
             rest == PorcelainFrom(tree, i + 1)
         IN  IF tree[n] = Unchanged THEN rest
             ELSE <<tree[n] \o <<" ", n>>>> \o rest

\* The lines git status --porcelain prints for a work tree, in path order.
Porcelain(tree) == PorcelainFrom(tree, 1)

\* str.lstrip, str.rstrip and str.strip on one line.
RECURSIVE LStrip(_)
LStrip(l) == IF l # << >> /\ Head(l) = " " THEN LStrip(Tail(l)) ELSE l

RECURSIVE RStrip(_)
RStrip(l) ==
    IF l # << >> /\ l[Len(l)] = " " THEN RStrip(SubSeq(l, 1, Len(l) - 1)) ELSE l

StripLine(l) == RStrip(LStrip(l))

\* str.strip on a text whose lines are not blank: the first line loses its
\* leading blanks, the last its trailing ones.
StripText(text) ==
    IF text = << >> THEN << >>
    ELSE LET first == [text EXCEPT ![1] = LStrip(text[1])]
         IN  [first EXCEPT ![Len(text)] = RStrip(first[Len(text)])]

\* str.split("\n"): the empty text is one empty line.
SplitLines(text) == IF text = << >> THEN << << >> >> ELSE text

\* A message is a line of one piece.  These hold the words "nothing to commit".
NothingToCommit == {"nothing to commit, working tree clean"}

\* The ways a git command can end: exit status 0, another exit status
\* (CalledProcessError), or subprocess.run raising anything else.
Exit0(stdout) == [kind |-> "exit0", stdout |-> stdout, stderr |-> << >>]

NonZero(stdout, stderr) == [kind |-> "nonzero", stdout |-> stdout, stderr |-> stderr]

Raised == [kind |-> "exception", stdout |-> << >>, stderr |-> << >>]

Failures == {NonZero(<< >>, << <<"fatal: failed">> >>), Raised}

PlainOutcomes == {Exit0(<< >>)} \cup Failures

PorcelainOutcomes == {Exit0(Porcelain(tree)) : tree \in WorkTrees} \cup Failures

CommitOutcomes ==
    {Exit0(<< >>),
     NonZero(<< <<"nothing to commit, working tree clean">> >>, << >>),
     NonZero(<< >>, << <<"nothing to commit, working tree clean">> >>),
     NonZero(<< >>, << >>)} \cup Failures

BranchOutcomes == {Exit0(<< <<"m">> >>), Exit0(<< >>)} \cup Failures

\* run_git_command: (success, output, error).  error is None after exit
\* status 0, the stripped stderr after another one, str(e) otherwise.
run_git_command(o) ==
    CASE o.kind = "exit0" ->
            [success |-> TRUE, output |-> StripText(o.stdout),
             error |-> [none |-> TRUE, text |-> << >>]]
      [] o.kind = "nonzero" ->
            [success |-> FALSE, output |-> StripText(o.stdout),
             error |-> [none |-> FALSE, text |-> StripText(o.stderr)]]
      [] OTHER ->
            [success |-> FALSE, output |-> << >>,
             error |-> [none |-> FALSE,
                        text |-> << <<"[Errno 2] No such file or directory">> >>]]

\* line.startswith(prefix) and line[i:] (i counted from 0).
StartsWith(l, prefix) ==
    Len(l) >= Len(prefix) /\ SubSeq(l, 1, Len(prefix)) = prefix

From(l, i) == SubSeq(l, i + 1, Len(l))

RECURSIVE FirstBlank(_, _)
FirstBlank(l, i) ==
    IF i > Len(l) THEN 0 ELSE IF l[i] = " " THEN i ELSE FirstBlank(l, i + 1)

\* line.split(" ", 1)
SplitOnce(l) ==
    LET i == FirstBlank(l, 1)
    IN  IF i = 0 THEN <<l>> ELSE <<SubSeq(l, 1, i - 1), From(l, i)>>

Has(l, c) == \E i \in 1..Len(l) : l[i] = c

RECURSIVE UntrackedOf(_)
UntrackedOf(lines) ==
    IF lines = << >> THEN << >>
    ELSE LET line == Head(lines)
         IN  (IF StartsWith(line, <<"?", "?">>)
              THEN <<StripLine(From(line, 3))>> ELSE << >>)
             \o UntrackedOf(Tail(lines))

\* get_untracked_files, given what git status --porcelain came to.
get_untracked_files(r) ==
    IF ~r.success THEN << >> ELSE UntrackedOf(SplitLines(r.output))

RECURSIVE ModifiedOf(_)
ModifiedOf(lines) ==
    IF lines = << >> THEN << >>
    ELSE LET line == StripLine(Head(lines))
             status == StripLine(SplitOnce(line)[1])
             filename == StripLine(SplitOnce(line)[2])
         IN  (IF line # << >> /\ (Has(status, "M") \/ Has(status, "A"))
              THEN <<filename>> ELSE << >>)
             \o ModifiedOf(Tail(lines))

\* get_modified_files, given what git status --porcelain came to.
get_modified_files(r) ==
    IF ~r.success THEN << >> ELSE ModifiedOf(SplitLines(r.output))

\* The loop of lines 220-223 without the test of line 221: every modified file
\* is appended.
Merge_NoTest(files, more) == files \o more

RECURSIVE Merge(_, _)
Merge(files, more) ==
    IF more = << >> THEN files
    ELSE LET file == Head(more)
         IN  Merge(IF \E i \in 1..Len(files) : files[i] = file
                   THEN files ELSE Append(files, file),
                   Tail(more))

\* if error and "nothing to commit" in error
NothingToCommitIn(error) ==
    /\ ~error.none
    /\ error.text # << >>
    /\ \E i \in 1..Len(error.text) :
        \E j \in 1..Len(error.text[i]) : error.text[i][j] \in NothingToCommit

\* commit_changes without the test of line 156: every commit that failed is a
\* failure of the step.
commit_changes_AnyFailure(r) == r.success

\* commit_changes, given what git commit came to.
commit_changes(r) == IF ~r.success THEN NothingToCommitIn(r.error) ELSE TRUE

Command(cmd, arg, r) == [cmd |-> cmd, arg |-> arg, result |-> r]

PushInit ==
    /\ push_pc = "main"
    /\ include_modified \in BOOLEAN
    /\ commands = << >>
    /\ committed = << >>
    /\ untracked_files = << >>
    /\ modified_files = << >>
    /\ files_to_add = << >>
    /\ added = 0
    /\ success = << >>
    /\ exit_status = << >>
    /\ RunIdle
    /\ CounterIdle
    /\ ServiceIdle
    /\ OrderIdle
    /\ RetryIdle

\* auto_push_new_files without the return False of line 210: the method goes on
\* whatever git status came to.
CheckGitRepo_NoReturn ==
    /\ push_pc = "main"
    /\ \E o \in PlainOutcomes :
        commands' = Append(commands, Command("status", << >>, run_git_command(o)))
    /\ push_pc' = "untracked"
    /\ UNCHANGED <<include_modified, committed, untracked_files, modified_files,
                   files_to_add, added, success, exit_status>>
    /\ UNCHANGED beyondPush

\* auto_push_new_files lines 205-210: check_git_repo runs git status.
CheckGitRepo ==
    /\ push_pc = "main"
    /\ \E o \in PlainOutcomes :
        LET r == run_git_command(o)
        IN  /\ commands' = Append(commands, Command("status", << >>, r))
            /\ IF r.success
               THEN push_pc' = "untracked" /\ success' = success
               ELSE push_pc' = "returned" /\ success' = <<FALSE>>
    /\ UNCHANGED <<include_modified, committed, untracked_files, modified_files,
                   files_to_add, added, exit_status>>
    /\ UNCHANGED beyondPush

\* Lines 213-214: get_untracked_files and the copy of its result.
GetUntrackedFiles ==
    /\ push_pc = "untracked"
    /\ \E o \in PorcelainOutcomes :
        LET r == run_git_command(o)
        IN  /\ commands' = Append(commands, Command("porcelain", << >>, r))
            /\ untracked_files' = get_untracked_files(r)
            /\ files_to_add' = get_untracked_files(r)
    /\ push_pc' = IF include_modified THEN "modified" ELSE "add"
    /\ UNCHANGED <<include_modified, committed, modified_files, added, success,
                   exit_status>>
    /\ UNCHANGED beyondPush

\* Lines 217-223: get_modified_files and the loop that appends what is new.
GetModifiedFiles ==
    /\ push_pc = "modified"
    /\ \E o \in PorcelainOutcomes :
        LET r == run_git_command(o)
        IN  /\ commands' = Append(commands, Command("porcelain", << >>, r))
            /\ modified_files' = get_modified_files(r)
            /\ files_to_add' = Merge(files_to_add, get_modified_files(r))
    /\ push_pc' = "add"
    /\ UNCHANGED <<include_modified, committed, untracked_files, added, success,
                   exit_status>>
    /\ UNCHANGED beyondPush

\* Lines 225-228: nothing to add.
NoFiles ==
    /\ push_pc = "add"
    /\ files_to_add = << >>
    /\ success' = <<TRUE>>
    /\ push_pc' = "returned"
    /\ UNCHANGED <<include_modified, commands, committed, untracked_files,
                   modified_files, files_to_add, added, exit_status>>
    /\ UNCHANGED beyondPush

\* add_files without the return False of line 133: the loop goes on to the next
\* file after a git add that failed.
AddFile_NoReturn ==
    /\ push_pc = "add"
    /\ added < Len(files_to_add)
    /\ \E o \in PlainOutcomes :
        LET r == run_git_command(o)
        IN  commands' = Append(commands, Command("add", files_to_add[added + 1], r))
    /\ added' = added + 1
    /\ push_pc' = IF added + 1 = Len(files_to_add) THEN "commit" ELSE "add"
    /\ UNCHANGED <<include_modified, committed, untracked_files, modified_files,
                   files_to_add, success, exit_status>>
    /\ UNCHANGED beyondPush

\* One round of the loop of add_files (lines 127-135), and lines 230-232.
AddFile ==
    /\ push_pc = "add"
    /\ added < Len(files_to_add)
    /\ \E o \in PlainOutcomes :
        LET r == run_git_command(o)
        IN  /\ commands' = Append(commands, Command("add", files_to_add[added + 1], r))
            /\ IF r.success
               THEN /\ added' = added + 1
                    /\ push_pc' = IF added + 1 = Len(files_to_add) THEN "commit" ELSE "add"
                    /\ success' = success
               ELSE /\ added' = added
                    /\ push_pc' = "returned"
                    /\ success' = <<FALSE>>
    /\ UNCHANGED <<include_modified, committed, untracked_files, modified_files,
                   files_to_add, exit_status>>
    /\ UNCHANGED beyondPush

\* commit_changes (lines 139-163) and lines 234-236.
CommitChanges ==
    /\ push_pc = "commit"
    /\ \E o \in CommitOutcomes :
        LET r == run_git_command(o)
        IN  /\ commands' = Append(commands, Command("commit", << >>, r))
            /\ committed' = <<commit_changes(r)>>
            /\ IF commit_changes(r)
               THEN push_pc' = "branch" /\ success' = success
               ELSE push_pc' = "returned" /\ success' = <<FALSE>>
    /\ UNCHANGED <<include_modified, untracked_files, modified_files, files_to_add,
                   added, exit_status>>
    /\ UNCHANGED beyondPush

\* push_to_remote lines 176-182: git branch --show-current.
CurrentBranch ==
    /\ push_pc = "branch"
    /\ \E o \in BranchOutcomes :
        LET r == run_git_command(o)
        IN  /\ commands' = Append(commands, Command("branch", << >>, r))
            /\ IF r.success
               THEN push_pc' = "push" /\ success' = success
               ELSE push_pc' = "returned" /\ success' = <<FALSE>>
    /\ UNCHANGED <<include_modified, committed, untracked_files, modified_files,
                   files_to_add, added, exit_status>>
    /\ UNCHANGED beyondPush

\* push_to_remote lines 184-192 and lines 238-243: git push origin <branch>.
PushToRemote ==
    /\ push_pc = "push"
    /\ \E o \in PlainOutcomes :
        LET r == run_git_command(o)
            current_branch == commands[Len(commands)].result.output
            branch == IF current_branch = << >> THEN << >> ELSE current_branch[1]
        IN  /\ commands' = Append(commands, Command("push", branch, r))
            /\ success' = <<r.success>>
    /\ push_pc' = "returned"
    /\ UNCHANGED <<include_modified, committed, untracked_files, modified_files,
                   files_to_add, added, exit_status>>
    /\ UNCHANGED beyondPush

\* main lines 266-273: sys.exit(1) unless auto_push_new_files returned True.
MainExit ==
    /\ push_pc = "returned"
    /\ exit_status' = IF success = <<TRUE>> THEN <<0>> ELSE <<1>>
    /\ push_pc' = "exited"
    /\ UNCHANGED <<include_modified, commands, committed, untracked_files,
                   modified_files, files_to_add, added, success>>
    /\ UNCHANGED beyondPush

PushNext ==
    \/ CheckGitRepo
    \/ GetUntrackedFiles
    \/ GetModifiedFiles
    \/ NoFiles
    \/ AddFile
    \/ CommitChanges
    \/ CurrentBranch
    \/ PushToRemote
    \/ MainExit

PushSpec == PushInit /\ [][PushNext]_allVars

\* The positions in commands of the git add, git commit and git push commands.
Steps == {i \in 1..Len(commands) : commands[i].cmd \in {"add", "commit", "push"}}

Adds == {i \in 1..Len(commands) : commands[i].cmd = "add"}

\* add before commit before push.
Rank(cmd) == CASE cmd = "add" -> 1 [] cmd = "commit" -> 2 [] OTHER -> 3

\* The command at position i made its step fail: a git add, git branch or git
\* push that failed, a git status that failed in check_git_repo, a git commit
\* after which commit_changes returned False.
StepFailed(i) ==
    CASE commands[i].cmd = "porcelain" -> FALSE
      [] commands[i].cmd = "commit" -> ~commit_changes(commands[i].result)
      [] OTHER -> ~commands[i].result.success

Returned == push_pc \in {"returned", "exited"}

\* C22: auto_push_new_files issues git add once per file of files_to_add in list
\* order, then git commit, then git push; git commit is issued only after every
\* git add succeeded and git push only after commit_changes returned True; a
\* step that fails is the last command issued and makes the method return
\* False; after a git push that succeeded the method returns True.
C22_AddCommitPushInOrder ==
    /\ \A i \in Adds :
        /\ Cardinality({j \in Adds : j <= i}) <= Len(files_to_add)
        /\ commands[i].arg = files_to_add[Cardinality({j \in Adds : j <= i})]
    /\ \A i, j \in Steps :
        i < j => /\ Rank(commands[i].cmd) <= Rank(commands[j].cmd)
                 /\ commands[j].cmd # "add" => commands[i].cmd # commands[j].cmd
    /\ \A i \in Steps :
        commands[i].cmd = "commit" =>
            /\ Cardinality(Adds) = Len(files_to_add)
            /\ \A j \in Adds : j < i /\ commands[j].result.success
    /\ \A i \in Steps :
        commands[i].cmd = "push" =>
            \E j \in Steps : /\ j < i
                             /\ commands[j].cmd = "commit"
                             /\ committed = <<TRUE>>
                             /\ commit_changes(commands[j].result)
    /\ \A i \in 1..Len(commands) :
        StepFailed(i) => /\ i = Len(commands)
                         /\ Returned
                         /\ success = <<FALSE>>
    /\ \A i \in Steps :
        (commands[i].cmd = "push" /\ commands[i].result.success) =>
            Returned /\ success = <<TRUE>>
    /\ (Returned /\ success = <<TRUE>> /\ files_to_add # << >>) =>
            /\ commands[Len(commands)].cmd = "push"
            /\ commands[Len(commands)].result.success

\* Two files were added, committed and pushed, and main has ended.
C22_Witness ==
    /\ push_pc = "exited"
    /\ success = <<TRUE>>
    /\ Len(files_to_add) = 2
    /\ Cardinality(Adds) = 2
    /\ commands[Len(commands)].cmd = "push"
    /\ \A i \in Steps : commands[i].result.success

\* check_git_repo returned False: the git status of line 63 failed.
CheckFailed ==
    /\ commands # << >>
    /\ commands[1].cmd = "status"
    /\ ~commands[1].result.success

\* C23: when the git status of check_git_repo fails, auto_push_new_files has
\* returned False, git status is the only command that was run (no git add, git
\* commit or git push), and main ends with exit status 1 and no other.
C23_NotARepository ==
    CheckFailed =>
        /\ Returned
        /\ success = <<FALSE>>
        /\ Len(commands) = 1
        /\ Steps = {}
        /\ exit_status = IF push_pc = "exited" THEN <<1>> ELSE << >>

\* main has ended after a repository check that failed.
C23_Witness ==
    /\ CheckFailed
    /\ push_pc = "exited"
    /\ exit_status = <<1>>

\* The lines of a text, as a set.
LinesOf(text) == {text[i] : i \in 1..Len(text)}

RECURSIVE NamesFrom(_, _)
NamesFrom(S, i) ==
    IF i > MaxFiles THEN << >>
    ELSE (IF FileNameList[i] \in S THEN << <<FileNameList[i]>> >> ELSE << >>)
         \o NamesFrom(S, i + 1)

\* The files a git status --porcelain call reported as untracked (??), and as
\* modified or added (M or A among the two status letters), in the order of
\* the report; none when the call failed.
ReportedUntracked(r) ==
    IF ~r.success THEN << >>
    ELSE NamesFrom({n \in FileNames : <<"?", "?", " ", n>> \in LinesOf(r.output)}, 1)

ReportedModified(r) ==
    IF ~r.success THEN << >>
    ELSE NamesFrom({n \in FileNames :
                        \E code \in {<<" ", "M">>, <<"A", " ">>} :
                            \/ code \o <<" ", n>> \in LinesOf(r.output)
                            \/ LStrip(code \o <<" ", n>>) \in LinesOf(r.output)}, 1)

NoDuplicates(files) ==
    \A i, j \in 1..Len(files) : files[i] = files[j] => i = j

\* The entries of more that are not in files, in order.
NotListed(files, more) ==
    SelectSeq(more, LAMBDA file : \A i \in 1..Len(files) : files[i] # file)

\* The status calls of lines 213 and 219 are behind.
FilesListed ==
    /\ ~CheckFailed
    /\ push_pc \notin {"main", "untracked", "modified"}

\* C24: once the status calls are made, untracked_files and modified_files
\* are the files git reported as untracked and as modified; without
\* include_modified files_to_add is untracked_files, with it files_to_add is
\* untracked_files followed by the modified files not among them, and no file
\* is in it twice.  When the list is empty no git add, git commit or git push
\* is ever issued and the method returns nothing but True.
C24_FilesToAdd ==
    FilesListed =>
        /\ untracked_files = ReportedUntracked(commands[2].result)
        /\ IF include_modified
           THEN /\ modified_files = ReportedModified(commands[3].result)
                /\ files_to_add = untracked_files \o NotListed(untracked_files, modified_files)
           ELSE /\ modified_files = << >>
                /\ files_to_add = untracked_files
        /\ NoDuplicates(files_to_add)
        /\ (untracked_files = << >> /\ (include_modified => modified_files = << >>)) =>
                /\ files_to_add = << >>
                /\ Steps = {}
                /\ push_pc \in {"add", "returned", "exited"}
                /\ success = IF Returned THEN <<TRUE>> ELSE << >>
                /\ exit_status = IF push_pc = "exited" THEN <<0>> ELSE << >>

\* With --include-modified a file reported untracked by the first status call
\* and added by the second is listed once, before a modified one.
C24_Witness ==
    /\ FilesListed
    /\ include_modified
    /\ untracked_files = << <<"g">> >>
    /\ modified_files = << <<"f">>, <<"g">> >>
    /\ files_to_add = << <<"g">>, <<"f">> >>

\* Nothing was untracked or modified, and the method returned True.
C24_WitnessNothing ==
    /\ FilesListed
    /\ include_modified
    /\ commands[2].result.success
    /\ commands[3].result.success
    /\ files_to_add = << >>
    /\ push_pc = "exited"

\* The position of the git commit command in commands, 0 when there is none.
CommitAt ==
    IF \E i \in Steps : commands[i].cmd = "commit"
    THEN CHOOSE i \in Steps : commands[i].cmd = "commit"
    ELSE 0

\* The words "nothing to commit" are in what git commit wrote to stderr.
SaidNothingToCommit(r) ==
    \E i \in 1..Len(r.error.text) :
        r.error.text[i] = <<"nothing to commit, working tree clean">>

\* C25: when git commit fails with "nothing to commit" in its error output,
\* commit_changes returns True and the method goes on to push_to_remote (its
\* next command is the git branch --show-current of the push step); after any
\* other failure of git commit commit_changes returns False, the method returns
\* False and git commit stays the last command: no push is attempted.
C25_NothingToCommit ==
    CommitAt # 0 =>
        LET r == commands[CommitAt].result
        IN  /\ (~r.success /\ SaidNothingToCommit(r)) =>
                /\ committed = <<TRUE>>
                /\ push_pc \in {"branch", "push", "returned", "exited"}
                /\ push_pc # "branch" =>
                        /\ Len(commands) > CommitAt
                        /\ commands[CommitAt + 1].cmd = "branch"
            /\ (~r.success /\ ~SaidNothingToCommit(r)) =>
                /\ committed = <<FALSE>>
                /\ Returned
                /\ success = <<FALSE>>
                /\ Len(commands) = CommitAt
            /\ r.success => committed = <<TRUE>>

\* git commit failed with "nothing to commit" on stderr and git push was run.
C25_Witness ==
    /\ CommitAt # 0
    /\ ~commands[CommitAt].result.success
    /\ SaidNothingToCommit(commands[CommitAt].result)
    /\ commands[Len(commands)].cmd = "push"
    /\ commands[Len(commands)].result.success
    /\ success = <<TRUE>>

(***************************************************************************)
(* OrderService.create_order (src/python_learn/mypy/examples/              *)
(* ecommerce_example.py) over its three repositories.  A repository is the *)
(* set of the (key, item) pairs of its dictionary; an order is the object  *)
(* the order repository and the caller share.  Prices are whole amounts, a *)
(* discount is 0.0 or float("inf"), the one float for which Decimal        *)
(* arithmetic in Order._calculate_total can raise.                         *)
(***************************************************************************)

\* Number of create_order calls.
MaxOrders == 2

\* Length of the product_ids argument.
MaxProductIds == 2

CustomerIds == {1, 2}

ProductIds == {1, 2, 3}

Discounts == {"0.0", "inf"}

Pair(key, item) == [key |-> key, item |-> item]

Keys(items) == {e.key : e \in items}

\* Repository.get_by_id: dict.get, None for a key that is missing.
get_by_id(items, item_id) ==
    IF item_id \in Keys(items)
    THEN <<(CHOOSE e \in items : e.key = item_id).item>>
    ELSE None

\* Repository.delete
delete(items, item_id) == {e \in items : e.key # item_id}

ProductLists == UNION {[1..n -> ProductIds] : n \in 0..MaxProductIds}

RECURSIVE Subtotal(_)
Subtotal(ps) == IF ps = << >> THEN 0 ELSE Head(ps).price + Subtotal(Tail(ps))

\* Order._calculate_total: subtotal - subtotal * Decimal(str(discount)).  The
\* product 0 * Infinity signals decimal.InvalidOperation, which the default
\* context raises; any other subtotal times Infinity is Infinity.
calculate_total(ps, discount) ==
    IF discount = "inf"
    THEN [raises |-> Subtotal(ps) = 0, infinite |-> TRUE, amount |-> 0]
    ELSE [raises |-> FALSE, infinite |-> FALSE, amount |-> Subtotal(ps)]

OrderInit ==
    /\ customer_repo = {Pair(1, "customer")}
    /\ \E stocked \in BOOLEAN :
        product_repo = {Pair(1, [price |-> 0, in_stock |-> TRUE]),
                        Pair(2, [price |-> 2, in_stock |-> stocked])}
    /\ order_items = {}
    /\ next_id = 1
    /\ order_pc = "idle"
    /\ order_args = << >>
    /\ products = << >>
    /\ order = << >>
    /\ items_before = {}
    /\ orders = 0
    /\ RunIdle
    /\ CounterIdle
    /\ ServiceIdle
    /\ PushIdle
    /\ RetryIdle

\* A caller calls create_order(customer_id, product_ids, payment_method, discount).
CallCreateOrder(customer_id, product_ids, discount) ==
    /\ order_pc = "idle"
    /\ orders < MaxOrders
    /\ orders' = orders + 1
    /\ order_args' = [customer_id |-> customer_id, product_ids |-> product_ids,
                      discount_percentage |-> discount]
    /\ products' = << >>
    /\ order' = << >>
    /\ items_before' = order_items
    /\ order_pc' = "customer"
    /\ UNCHANGED <<customer_repo, product_repo, order_items, next_id>>
    /\ UNCHANGED beyondOrder

\* Lines 238-240.
GetCustomer ==
    /\ order_pc = "customer"
    /\ IF get_by_id(customer_repo, order_args.customer_id) = None
       THEN order' = <<"None">> /\ order_pc' = "idle"
       ELSE order' = order /\ order_pc' = "products"
    /\ UNCHANGED <<customer_repo, product_repo, order_items, next_id, order_args,
                   products, items_before, orders>>
    /\ UNCHANGED beyondOrder

\* One round of the loop of lines 244-248.
GetProduct ==
    /\ order_pc = "products"
    /\ Len(products) < Len(order_args.product_ids)
    /\ LET product_id == order_args.product_ids[Len(products) + 1]
           product == get_by_id(product_repo, product_id)
       IN  IF product = None \/ ~product[1].in_stock
           THEN order' = <<"None">> /\ order_pc' = "idle" /\ products' = products
           ELSE order' = order /\ order_pc' = "products"
                /\ products' = Append(products, product[1])
    /\ UNCHANGED <<customer_repo, product_repo, order_items, next_id, order_args,
                   items_before, orders>>
    /\ UNCHANGED beyondOrder

\* create_order without line 253: the order is saved and returned with the id
\* None of Order.__init__ (0 here).
SaveOrder_IdNotSet ==
    /\ order_pc = "products"
    /\ Len(products) = Len(order_args.product_ids)
    /\ IF calculate_total(products, order_args.discount_percentage).raises
       THEN /\ order' = <<"InvalidOperation">>
            /\ UNCHANGED <<order_items, next_id>>
       ELSE /\ order_items' =
                    delete(order_items, next_id)
                    \cup {Pair(next_id, [id |-> 0,
                                         customer |-> order_args.customer_id,
                                         products |-> order_args.product_ids])}
            /\ next_id' = next_id + 1
            /\ order' = <<"order", 0>>
    /\ order_pc' = "idle"
    /\ UNCHANGED <<customer_repo, product_repo, order_args, products, items_before,
                   orders>>
    /\ UNCHANGED beyondOrder

\* Lines 251-255: Order(...), which computes the total, then Repository.save
\* (lines 109-114) and order.id = order_id on the object that was saved.
SaveOrder ==
    /\ order_pc = "products"
    /\ Len(products) = Len(order_args.product_ids)
    /\ IF calculate_total(products, order_args.discount_percentage).raises
       THEN /\ order' = <<"InvalidOperation">>
            /\ UNCHANGED <<order_items, next_id>>
       ELSE LET item_id == next_id
            IN  /\ order_items' =
                        delete(order_items, item_id)
                        \cup {Pair(item_id, [id |-> item_id,
                                             customer |-> order_args.customer_id,
                                             products |-> order_args.product_ids])}
                /\ next_id' = next_id + 1
                /\ order' = <<"order", item_id>>
    /\ order_pc' = "idle"
    /\ UNCHANGED <<customer_repo, product_repo, order_args, products, items_before,
                   orders>>
    /\ UNCHANGED beyondOrder

\* Repository.delete on the order repository, between two calls; what the
\* last call returned is forgotten.
DeleteOrder(item_id) ==
    /\ order_pc = "idle"
    /\ item_id \in Keys(order_items)
    /\ order_items' = delete(order_items, item_id)
    /\ items_before' = delete(order_items, item_id)
    /\ order' = << >>
    /\ UNCHANGED <<customer_repo, product_repo, next_id, order_pc, order_args,
                   products, orders>>
    /\ UNCHANGED beyondOrder

OrderNext ==
    \/ \E customer_id \in CustomerIds, product_ids \in ProductLists, discount \in Discounts :
        CallCreateOrder(customer_id, product_ids, discount)
    \/ GetCustomer
    \/ GetProduct
    \/ SaveOrder
    \/ \E item_id \in 1..MaxOrders : DeleteOrder(item_id)

OrderSpec == OrderInit /\ [][OrderNext]_allVars

\* The current call is one create_order returns None for: the customer id is
\* not in the customer repository, or a requested product id is missing from
\* the product repository or not in stock.
Rejected ==
    \/ order_args.customer_id \notin Keys(customer_repo)
    \/ \E i \in 1..Len(order_args.product_ids) :
        LET product == get_by_id(product_repo, order_args.product_ids[i])
        IN  product = None \/ ~product[1].in_stock

\* The products of the current call, all of them in the product repository.
Requested ==
    [i \in 1..Len(order_args.product_ids) |->
        get_by_id(product_repo, order_args.product_ids[i])[1]]

\* The call returned an order that is the one item added to the order
\* repository, under a key that was free, and whose id is that key.
SavedOne ==
    /\ Len(order) = 2
    /\ order[1] = "order"
    /\ order[2] \notin Keys(items_before)
    /\ order_items = items_before \cup {Pair(order[2], [id |-> order[2],
                                              customer |-> order_args.customer_id,
                                              products |-> order_args.product_ids])}

CallEnded == order_pc = "idle" /\ order # << >>

\* C26 as stated: a call that ends returns None and leaves the order
\* repository as it was when rejected, and otherwise has saved exactly one new
\* order whose id is the key the repository gave it.
C26_CreateOrder ==
    CallEnded =>
        IF Rejected
        THEN order = <<"None">> /\ order_items = items_before
        ELSE SavedOne

\* C26, amended: the order repository is untouched while a call runs; a call
\* that ends returns None and leaves the repository as it was when rejected;
\* when it is not rejected and the total of the order cannot be computed (no
\* amount to pay and an infinite discount) decimal.InvalidOperation leaves the
\* call and the repository is as it was; otherwise exactly one new order is
\* saved and the order returned has the key the repository gave it as its id.
C26_CreateOrderUnlessTotalRaises ==
    /\ order_pc \notin {"off", "idle"} => order_items = items_before
    /\ CallEnded =>
        IF Rejected
        THEN order = <<"None">> /\ order_items = items_before
        ELSE IF calculate_total(Requested, order_args.discount_percentage).raises
             THEN order = <<"InvalidOperation">> /\ order_items = items_before
             ELSE SavedOne

\* The second call saved an order under key 2 after the first order was deleted.
C26_Witness ==
    /\ CallEnded
    /\ ~Rejected
    /\ order = <<"order", 2>>
    /\ Keys(order_items) = {2}
    /\ order_args.product_ids = <<2, 1>>
    /\ order_args.discount_percentage = "inf"

(***************************************************************************)
(* RetryableConnection.connect_with_retry (src/python_learn/               *)
(* aiohappyeyeballs/examples/practical_patterns.py lines 291-332).  The    *)
(* connection itself is commented out in the source: an attempt fails      *)
(* where line 311 makes it fail, in the first two attempts to              *)
(* unreliable.example.com.  Delays are counted in twentieths of a second,  *)
(* so that the jitter of a tenth is a whole number.                        *)
(***************************************************************************)

\* Largest max_retries a RetryableConnection is built with.
MaxRetries == 3

BaseDelays == {10, 20, 40}

Hostnames == {"httpbin.org", "example.com", "unreliable.example.com"}

RECURSIVE Pow2(_)
Pow2(n) == IF n = 0 THEN 1 ELSE 2 * Pow2(n - 1)

\* Lines 324-326: delay = base_delay * 2 ** attempt, a tenth of it as jitter.
total_delay(base, n) ==
    LET delay == base * Pow2(n)
        jitter == delay \div 10
    IN  delay + jitter

\* Line 311: the failure the example simulates.
SimulatedFailure(host, n) == n < 2 /\ host = "unreliable.example.com"

RetryInit ==
    /\ retry_pc = "for"
    /\ max_retries \in 0..MaxRetries
    /\ base_delay \in BaseDelays
    /\ hostname \in Hostnames
    /\ attempt = 0
    /\ attempts = 0
    /\ sleeps = << >>
    /\ last_failed = << >>
    /\ RunIdle
    /\ CounterIdle
    /\ ServiceIdle
    /\ PushIdle
    /\ OrderIdle

\* Line 299: range(max_retries + 1) yields the next attempt.
NextAttempt ==
    /\ retry_pc = "for"
    /\ attempt < max_retries + 1
    /\ attempts' = attempts + 1
    /\ retry_pc' = "try"
    /\ UNCHANGED <<max_retries, base_delay, hostname, attempt, sleeps, last_failed>>
    /\ UNCHANGED beyondRetry

\* Lines 300-317: the attempt raises ConnectionRefusedError or returns.
TryConnect ==
    /\ retry_pc = "try"
    /\ IF SimulatedFailure(hostname, attempt)
       THEN retry_pc' = "except" /\ last_failed' = <<attempt>>
       ELSE retry_pc' = "returned" /\ last_failed' = last_failed
    /\ UNCHANGED <<max_retries, base_delay, hostname, attempt, attempts, sleeps>>
    /\ UNCHANGED beyondRetry

\* The handler without the test of line 322: it sleeps after every failure.
HandleFailure_AlwaysSleeps ==
    /\ retry_pc = "except"
    /\ sleeps' = Append(sleeps, total_delay(base_delay, attempt))
    /\ retry_pc' = "sleep"
    /\ UNCHANGED <<max_retries, base_delay, hostname, attempt, attempts, last_failed>>
    /\ UNCHANGED beyondRetry

\* Lines 319-332: the handler awaits asyncio.sleep when an attempt remains and
\* re-raises otherwise.
HandleFailure ==
    /\ retry_pc = "except"
    /\ IF attempt < max_retries
       THEN /\ sleeps' = Append(sleeps, total_delay(base_delay, attempt))
            /\ retry_pc' = "sleep"
       ELSE /\ sleeps' = sleeps
            /\ retry_pc' = "raised"
    /\ UNCHANGED <<max_retries, base_delay, hostname, attempt, attempts, last_failed>>
    /\ UNCHANGED beyondRetry

\* asyncio.sleep is over: back to line 299.
WakeUp ==
    /\ retry_pc = "sleep"
    /\ attempt' = attempt + 1
    /\ retry_pc' = "for"
    /\ UNCHANGED <<max_retries, base_delay, hostname, attempts, sleeps, last_failed>>
    /\ UNCHANGED beyondRetry

RetryNext ==
    \/ NextAttempt
    \/ TryConnect
    \/ HandleFailure
    \/ WakeUp

RetrySpec == RetryInit /\ [][RetryNext]_allVars

\* The coroutine is awaited to its end by its caller (line 345) and a sleep of
\* finite length ends: a step that can be taken is taken.
FairRetrySpec == RetrySpec /\ WF_allVars(RetryNext)

RetryEnded == retry_pc \in {"returned", "raised"}

\* What holds of connect_with_retry at every moment of a call.
RetryBounds ==
    /\ attempts <= max_retries + 1
    /\ attempts = IF retry_pc = "for" THEN attempt ELSE attempt + 1
    /\ retry_pc = "sleep" => attempt < max_retries
    /\ Len(sleeps) = IF retry_pc = "sleep" THEN attempt + 1 ELSE attempt
    /\ \A i \in 1..Len(sleeps) : sleeps[i] = total_delay(base_delay, i - 1)
    /\ retry_pc = "returned" =>
            /\ ~SimulatedFailure(hostname, attempt)
            /\ \A n \in 0..(attempt - 1) : SimulatedFailure(hostname, n)
            /\ Len(sleeps) = attempts - 1
    /\ retry_pc = "raised" =>
            /\ attempts = max_retries + 1
            /\ last_failed = <<max_retries>>
            /\ Len(sleeps) = max_retries
            /\ \A n \in 0..max_retries : SimulatedFailure(hostname, n)

\* C27: connect_with_retry ends, by returning or by raising, and never begins
\* more than max_retries + 1 attempts; it returns at the first attempt that
\* does not fail, having slept once after each failed attempt before it; it
\* sleeps only while an attempt remains; it raises after attempt
\* max_retries + 1 failed, the failure of that attempt, having slept
\* max_retries times and not after the last failure.
C27_TerminatesWithinRetries == []RetryBounds /\ <>RetryEnded

\* Both attempts of a connection with max_retries = 1 failed: one sleep, then
\* the second failure was raised.
C27_Witness ==
    /\ retry_pc = "raised"
    /\ max_retries = 1
    /\ attempts = 2
    /\ Len(sleeps) = 1
    /\ last_failed = <<1>>

====
